---- MODULE Spec2Model ----
(***************************************************************************)
(* Golden-rule retrieval store of content_generator (src/rule_storage.py): *)
(* the chunker, the tagger, and RuleStore.build / query / save / load;     *)
(* the rule blocks of the prompt (src/prompt_builder.py) and the retrieval *)
(* step of generate_medical_page (src/generation_pipeline.py); the message *)
(* sanitizer (src/openai_client.py), safe_json_loads (src/utils.py) and    *)
(* the life of the store in a UI session (src/app.py).                     *)
(*                                                                         *)
(* Text is a sequence of one-character strings.  A vector is a sequence of *)
(* integers in tenths (10 stands for 1.0), so that the vectors used here   *)
(* have integer norms and cosine similarities are exact; a similarity     *)
(* score is an integer in hundredths (100 stands for 1.0).                 *)
(* An optional value (Python's None or a value) is <<>> or <<value>>.      *)
(***************************************************************************)
EXTENDS Integers, Sequences, FiniteSets, TLC

\* ---------------------------------------------------------------- bounds

\* top_k ranges over 1..MaxTopK
MaxTopK == 2
\* the embedding gateway answers with one of the first NumEmb vectors of EmbTable
NumEmb == 2

\* the texts given to the chunker hold at most MaxWords words
MaxWords == 5
\* chunk_size_words ranges over 1..MaxChunkSize, overlap_words over 0..MaxOverlap
MaxChunkSize == 3
MaxOverlap == 3
\* the texts given to the tagger are made of at most MaxFragments fragments
MaxFragments == 3
\* a section of the static rules holds at most MaxRules rules
MaxRules == 3
\* the formatter of the dynamic rules is given at most MaxChunks chunks
MaxChunks == 3
\* the content of the first message holds at most MaxLines lines
MaxLines == 3

\* ------------------------------------------------------- program constants

\* chunk_golden_rules(text, chunk_size_words=260, overlap_words=40)
DefaultChunkSizeWords == 260
DefaultOverlapWords == 40

\* ---------------------------------------------------------------- Python values

None == <<>>
Some(x) == <<x>>
IsNone(o) == o = <<>>
Val(o) == o[1]

Min(a, b) == IF a <= b THEN a ELSE b
Max(a, b) == IF a >= b THEN a ELSE b

\* ---------------------------------------------------------------- text

\* the characters \s matches and str.strip() removes
Whitespace == {" ", "\n", "\t"}

\* str.lower() on one character
LowerChar(c) ==
    CASE c = "A" -> "a"
      [] c = "B" -> "b"
      [] c = "C" -> "c"
      [] c = "D" -> "d"
      [] c = "E" -> "e"
      [] c = "F" -> "f"
      [] c = "G" -> "g"
      [] c = "H" -> "h"
      [] c = "I" -> "i"
      [] c = "J" -> "j"
      [] c = "K" -> "k"
      [] c = "L" -> "l"
      [] c = "M" -> "m"
      [] c = "N" -> "n"
      [] c = "O" -> "o"
      [] c = "P" -> "p"
      [] c = "Q" -> "q"
      [] c = "R" -> "r"
      [] c = "S" -> "s"
      [] c = "T" -> "t"
      [] c = "U" -> "u"
      [] c = "V" -> "v"
      [] c = "W" -> "w"
      [] c = "X" -> "x"
      [] c = "Y" -> "y"
      [] c = "Z" -> "z"
      [] OTHER -> c

\* str.upper() on one character
UpperChar(c) ==
    CASE c = "a" -> "A"
      [] c = "b" -> "B"
      [] c = "c" -> "C"
      [] c = "d" -> "D"
      [] c = "e" -> "E"
      [] c = "f" -> "F"
      [] c = "g" -> "G"
      [] c = "h" -> "H"
      [] c = "i" -> "I"
      [] c = "j" -> "J"
      [] c = "k" -> "K"
      [] c = "l" -> "L"
      [] c = "m" -> "M"
      [] c = "n" -> "N"
      [] c = "o" -> "O"
      [] c = "p" -> "P"
      [] c = "q" -> "Q"
      [] c = "r" -> "R"
      [] c = "s" -> "S"
      [] c = "t" -> "T"
      [] c = "u" -> "U"
      [] c = "v" -> "V"
      [] c = "w" -> "W"
      [] c = "x" -> "X"
      [] c = "y" -> "Y"
      [] c = "z" -> "Z"
      [] OTHER -> c

\* a letter: a character that has a case
IsCased(c) == LowerChar(c) # c \/ UpperChar(c) # c

\* str.lower()
Lower(text) == [i \in 1..Len(text) |-> LowerChar(text[i])]

\* str.title(): a letter that follows no letter is upper-cased, every other letter
\* lower-cased
Title(text) ==
    [i \in 1..Len(text) |->
        IF i > 1 /\ IsCased(text[i - 1]) THEN LowerChar(text[i]) ELSE UpperChar(text[i])]

\* `keyword in lowered`: substring test
Contains(text, keyword) ==
    \E i \in 1..(Len(text) - Len(keyword) + 1) :
        SubSeq(text, i, i + Len(keyword) - 1) = keyword

\* re.sub(r"\s+", " ", text) on text[lo..hi]: every run of whitespace becomes one space
RECURSIVE CollapseRange(_, _, _)
CollapseRange(text, lo, hi) ==
    IF lo > hi THEN <<>>
    ELSE IF lo = hi
         THEN IF text[lo] \in Whitespace
              THEN IF lo > 1 /\ text[lo - 1] \in Whitespace THEN <<>> ELSE <<" ">>
              ELSE <<text[lo]>>
         ELSE LET mid == (lo + hi) \div 2
              IN  CollapseRange(text, lo, mid) \o CollapseRange(text, mid + 1, hi)

CollapseWhitespace(text) == CollapseRange(text, 1, Len(text))

\* str.strip()
RECURSIVE LStrip(_)
LStrip(text) ==
    IF text # <<>> /\ Head(text) \in Whitespace THEN LStrip(Tail(text)) ELSE text

RECURSIVE RStrip(_)
RStrip(text) ==
    IF text # <<>> /\ text[Len(text)] \in Whitespace
    THEN RStrip(SubSeq(text, 1, Len(text) - 1))
    ELSE text

Strip(text) == LStrip(RStrip(text))

\* the positions of the spaces of text[lo..hi], ascending
RECURSIVE SpacePositions(_, _, _)
SpacePositions(text, lo, hi) ==
    IF lo > hi THEN <<>>
    ELSE IF lo = hi
         THEN IF text[lo] = " " THEN <<lo>> ELSE <<>>
         ELSE LET mid == (lo + hi) \div 2
              IN  SpacePositions(text, lo, mid) \o SpacePositions(text, mid + 1, hi)

\* str.split(" "): the pieces between single spaces (n spaces give n + 1 pieces)
SplitOnSpace(text) ==
    LET sp == SpacePositions(text, 1, Len(text))
        b  == <<0>> \o sp \o <<Len(text) + 1>>
    IN  [k \in 1..(Len(sp) + 1) |-> SubSeq(text, b[k] + 1, b[k + 1] - 1)]

\* " ".join(words[lo..hi])
RECURSIVE JoinRange(_, _, _)
JoinRange(words, lo, hi) ==
    IF lo > hi THEN <<>>
    ELSE IF lo = hi THEN words[lo]
         ELSE LET mid == (lo + hi) \div 2
              IN  JoinRange(words, lo, mid) \o <<" ">> \o JoinRange(words, mid + 1, hi)

JoinWords(words) == JoinRange(words, 1, Len(words))

\* ---------------------------------------------------------------- chunker

\* line 82: the next window start
NextStart(end, chunk_size_words, overlap_words) ==
    IF overlap_words >= chunk_size_words
    THEN Max(end - overlap_words, end)
    ELSE end - overlap_words

\* the while loop with windows one word too long
RECURSIVE WindowLoop_wide(_, _, _, _, _)
WindowLoop_wide(words, start, chunk_size_words, overlap_words, chunks) ==
    IF ~(start < Len(words)) THEN chunks
    ELSE LET end    == Min(Len(words), start + chunk_size_words + 1)
             chunk  == Strip(JoinWords(SubSeq(words, start + 1, end)))
             chunks2 == IF chunk # <<>> THEN Append(chunks, chunk) ELSE chunks
         IN  IF end = Len(words) THEN chunks2
             ELSE WindowLoop_wide(words, Max(start + 1, end - overlap_words),
                                  chunk_size_words, overlap_words, chunks2)

\* lines 73-82: the while loop; start and end are Python's 0-based slice bounds
RECURSIVE WindowLoop(_, _, _, _, _)
WindowLoop(words, start, chunk_size_words, overlap_words, chunks) ==
    IF ~(start < Len(words)) THEN chunks
    ELSE LET end    == Min(Len(words), start + chunk_size_words)
             chunk  == Strip(JoinWords(SubSeq(words, start + 1, end)))
             chunks2 == IF chunk # <<>> THEN Append(chunks, chunk) ELSE chunks
         IN  IF end = Len(words) THEN chunks2
             ELSE WindowLoop(words, NextStart(end, chunk_size_words, overlap_words),
                             chunk_size_words, overlap_words, chunks2)

\* lines 84-89: keep the first occurrence of every chunk
RECURSIVE UniqueChunks(_, _, _)
UniqueChunks(chunks, i, unique) ==
    IF i > Len(chunks) THEN unique
    ELSE UniqueChunks(chunks, i + 1,
             IF \E j \in 1..Len(unique) : unique[j] = chunks[i]
             THEN unique ELSE Append(unique, chunks[i]))

chunk_golden_rules(text, chunk_size_words, overlap_words) ==
    LET cleaned == Strip(CollapseWhitespace(text))
    IN  IF cleaned = <<>> THEN <<>>
        ELSE UniqueChunks(
                 WindowLoop(SplitOnSpace(cleaned), 0, chunk_size_words, overlap_words, <<>>),
                 1, <<>>)

\* ---------------------------------------------------------------- tagger

KwSeo == { <<"s","e","o">>, <<"s","e","a","r","c","h">>, <<"k","e","y","w","o","r","d">>,
           <<"s","e","r","p">>, <<"a","e","o">> }
KwStructure == { <<"s","t","r","u","c","t","u","r","e">>, <<"l","a","y","o","u","t">>,
                 <<"s","e","c","t","i","o","n","s">>, <<"h","e","a","d","i","n","g">>,
                 <<"o","u","t","l","i","n","e">> }
KwCta == { <<"c","t","a">>,
           <<"c","a","l","l"," ","t","o"," ","a","c","t","i","o","n">>,
           <<"c","o","n","v","e","r","s","i","o","n">>, <<"b","u","t","t","o","n">> }
KwTone == { <<"t","o","n","e">>, <<"v","o","i","c","e">>, <<"e","m","p","a","t","h","y">>,
            <<"p","e","r","s","o","n","a","l","i","t","y">>, <<"b","r","a","n","d">> }

\* the tag strings in sorted() order
TagOrder == <<"cta", "general", "seo", "structure", "tone">>

\* sorted(tags) of a set of tag strings
SortedTags(tags) == SelectSeq(TagOrder, LAMBDA t : t \in tags)

\* set(list)
SetOf(seq) == {seq[i] : i \in 1..Len(seq)}

\* the tagger looking for its keywords in the text as given, not lower-cased
_guess_tags_no_lower(text) ==
    LET any(kws) == \E keyword \in kws : Contains(text, keyword)
        tags == (IF any(KwSeo) THEN {"seo"} ELSE {})
                \cup (IF any(KwStructure) THEN {"structure"} ELSE {})
                \cup (IF any(KwCta) THEN {"cta"} ELSE {})
                \cup (IF any(KwTone) THEN {"tone"} ELSE {})
    IN  SortedTags(IF tags = {} THEN {"general"} ELSE tags)

_guess_tags_from_text(text) ==
    LET lowered == Lower(text)
        any(kws) == \E keyword \in kws : Contains(lowered, keyword)
        tags == (IF any(KwSeo) THEN {"seo"} ELSE {})
                \cup (IF any(KwStructure) THEN {"structure"} ELSE {})
                \cup (IF any(KwCta) THEN {"cta"} ELSE {})
                \cup (IF any(KwTone) THEN {"tone"} ELSE {})
    IN  SortedTags(IF tags = {} THEN {"general"} ELSE tags)

\* ---------------------------------------------------------------- documents

\* a rule document given by its words and the separator after each word
RECURSIVE ConcatRange(_, _, _)
ConcatRange(pieces, lo, hi) ==
    IF lo > hi THEN <<>>
    ELSE IF lo = hi THEN pieces[lo]
         ELSE LET mid == (lo + hi) \div 2
              IN  ConcatRange(pieces, lo, mid) \o ConcatRange(pieces, mid + 1, hi)

\* 261 words, one more than a window: "SEO", 259 times "x", "tone"; a newline after
\* every hundredth word
LongDocPieces ==
    [i \in 1..261 |->
        (IF i = 1 THEN <<"S","E","O">> ELSE IF i = 261 THEN <<"t","o","n","e">> ELSE <<"x">>)
        \o (IF i % 100 = 0 THEN <<" ", "\n">> ELSE <<" ">>)]

DocIds == {"empty", "blank", "short", "long"}

Doc(d) ==
    CASE d = "empty" -> <<>>
      [] d = "blank" -> <<" ", "\n", "\t", " ">>
      [] d = "short" -> <<" ","U","s","e","\t"," ","x","\n">>
      [] d = "long"  -> ConcatRange(LongDocPieces, 1, Len(LongDocPieces))

\* chunk_golden_rules(raw_text) as build calls it, with the default window
BuildChunkTexts ==
    [d \in DocIds |-> chunk_golden_rules(Doc(d), DefaultChunkSizeWords, DefaultOverlapWords)]

\* _guess_tags_from_text of every chunk text of a document
BuildChunkGuess ==
    [d \in DocIds |-> [i \in 1..Len(BuildChunkTexts[d]) |->
                          _guess_tags_from_text(BuildChunkTexts[d][i])]]

\* ---------------------------------------------------------------- vectors

\* the vectors the embedding gateway answers with, in tenths
EmbTable == << <<3, 4>>, <<10, 0>>, <<0, 0>>, <<0, 10>>, <<-6, -8>> >>
EmbVals == {EmbTable[i] : i \in 1..Min(NumEmb, Len(EmbTable))}

Dot(a, b) ==
    LET RECURSIVE sum(_)
        sum(i) == IF i = 0 THEN 0 ELSE a[i] * b[i] + sum(i - 1)
    IN  sum(Min(Len(a), Len(b)))

\* np.linalg.norm of one vector (the vectors of EmbTable have integer norms)
Norm(v) == LET n == Dot(v, v) IN CHOOSE r \in 0..n : r * r = n

\* faiss.normalize_L2 of one row: a zero row is left as it is
NormalizeL2(v) ==
    LET n == Norm(v) IN IF n = 0 THEN v ELSE [i \in 1..Len(v) |-> (v[i] * 10) \div n]

\* ndarray.size of a matrix given by its rows
ArraySize(rows) == IF Len(rows) = 0 THEN 0 ELSE Len(rows) * Len(rows[1])

\* ---------------------------------------------------------------- RuleChunk

RuleChunk(text, embedding, metadata) ==
    [text |-> text, embedding |-> embedding, metadata |-> metadata]

\* RuleChunk.to_dict
to_dict(chunk) ==
    [text |-> chunk.text, embedding |-> chunk.embedding, metadata |-> chunk.metadata]

\* from_dict reading the metadata under a key to_dict never writes
from_dict_wrong_key(payload) ==
    RuleChunk(IF "text" \in DOMAIN payload THEN payload.text ELSE <<>>,
              IF "embedding" \in DOMAIN payload THEN payload.embedding ELSE <<>>,
              IF "meta" \in DOMAIN payload THEN payload.meta ELSE <<>>)

\* RuleChunk.from_dict: payload.get(key, default)
from_dict(payload) ==
    RuleChunk(IF "text" \in DOMAIN payload THEN payload.text ELSE <<>>,
              IF "embedding" \in DOMAIN payload THEN payload.embedding ELSE <<>>,
              IF "metadata" \in DOMAIN payload THEN payload.metadata ELSE <<>>)

\* {**metadata, "score": float(score)}
WithScore(metadata, score) ==
    [key \in (DOMAIN metadata) \cup {"score"} |->
        IF key = "score" THEN score ELSE metadata[key]]

\* ---------------------------------------------------------------- embedding gateway

\* what client.embeddings.create does on one call: it raises, or it answers with data
GatewayRaises == [raised |-> TRUE, data |-> <<>>]
GatewayAnswers(vectors) == [raised |-> FALSE, data |-> vectors]

\* the answers to a batch of n texts: one vector per text, or an exception
BuildGatewayOutcomes(n) ==
    {GatewayRaises} \cup {GatewayAnswers(vs) : vs \in [1..n -> EmbVals]}

\* the answers to the one query text: a vector, no vector at all, or an exception
QueryGatewayOutcomes ==
    {GatewayRaises, GatewayAnswers(<<>>)} \cup {GatewayAnswers(<<v>>) : v \in EmbVals}

\* ---------------------------------------------------------------- RuleStore

\* RuleStore.__init__
RuleStoreInit == [index |-> None, chunks |-> <<>>, vectors |-> None]

is_ready(s) == Len(s.chunks) > 0

\* what an operation hands back: the store after it, the exception it raised ("" for
\* none), its return value and the number of gateway calls it made
Outcome(s, raised, result, gw) ==
    [store |-> s, raised |-> raised, result |-> result, gw |-> gw]

\* BuildFilled that assigns self._vectors only while it is None
BuildFilled_stale_vectors(s, chunk_texts, guessed, tags, embeddings, haveFaiss) ==
    LET vectors    == embeddings
        normalized == [i \in 1..Len(vectors) |-> NormalizeL2(vectors[i])]
        n          == Min(Len(chunk_texts), Len(embeddings))
    IN  [index   |-> IF haveFaiss THEN Some(normalized) ELSE None,
         vectors |-> IF ~IsNone(s.vectors) THEN s.vectors
                     ELSE Some(IF haveFaiss THEN normalized ELSE vectors),
         chunks  |-> [i \in 1..n |->
                        RuleChunk(chunk_texts[i], embeddings[i],
                                  [tags |-> SortedTags(SetOf(tags) \cup SetOf(guessed[i]))])]]

\* build, lines 115-128: the store once the embeddings have arrived
BuildFilled(s, chunk_texts, guessed, tags, embeddings, haveFaiss) ==
    LET vectors    == embeddings
        normalized == [i \in 1..Len(vectors) |-> NormalizeL2(vectors[i])]
        n          == Min(Len(chunk_texts), Len(embeddings))
    IN  [index   |-> IF haveFaiss THEN Some(normalized) ELSE None,
         vectors |-> Some(IF haveFaiss THEN normalized ELSE vectors),
         chunks  |-> [i \in 1..n |->
                        RuleChunk(chunk_texts[i], embeddings[i],
                                  [tags |-> SortedTags(SetOf(tags) \cup SetOf(guessed[i]))])]]

\* build that empties self.chunks and self.index before it calls the gateway
build_clears_first(s, chunk_texts, guessed, tags, gateway, haveFaiss) ==
    IF chunk_texts = <<>>
    THEN Outcome([s EXCEPT !.index = None, !.chunks = <<>>], "", <<>>, 0)
    ELSE IF gateway.raised
         THEN Outcome([s EXCEPT !.index = None, !.chunks = <<>>], "GatewayError", <<>>, 1)
         ELSE LET s2 == BuildFilled(s, chunk_texts, guessed, tags, gateway.data, haveFaiss)
              IN  Outcome(s2, "", s2.chunks, 1)

\* build that returns [] for blank text without resetting the store
build_blank_keeps_store(s, chunk_texts, guessed, tags, gateway, haveFaiss) ==
    IF chunk_texts = <<>>
    THEN Outcome(s, "", <<>>, 0)
    ELSE IF gateway.raised
         THEN Outcome(s, "GatewayError", <<>>, 1)
         ELSE LET s2 == BuildFilled(s, chunk_texts, guessed, tags, gateway.data, haveFaiss)
              IN  Outcome(s2, "", s2.chunks, 1)

\* RuleStore.build
build(s, chunk_texts, guessed, tags, gateway, haveFaiss) ==
    IF chunk_texts = <<>>
    THEN Outcome([s EXCEPT !.index = None, !.chunks = <<>>], "", <<>>, 0)
    ELSE IF gateway.raised
         THEN Outcome(s, "GatewayError", <<>>, 1)
         ELSE LET s2 == BuildFilled(s, chunk_texts, guessed, tags, gateway.data, haveFaiss)
              IN  Outcome(s2, "", s2.chunks, 1)

\* the bijections on 1..n
Bijections(n) ==
    {p \in [1..n -> 1..n] : \A i, j \in 1..n : i # j => p[i] # p[j]}

\* IndexFlatIP.search of one query: the k best inner products, best first, as
\* <<score, 0-based index>> pairs, padded with index -1 when the index holds fewer
\* than k vectors.  The library does not fix the order of equal scores: every order
\* is a possible answer.
FaissSearch(index_vectors, query_np, top_k) ==
    LET n      == Len(index_vectors)
        scores == [i \in 1..n |-> Dot(index_vectors[i], query_np)]
    IN  { [r \in 1..top_k |->
              IF r <= n THEN <<scores[p[r]], p[r] - 1>> ELSE <<-1000000, -1>>] :
          p \in {q \in Bijections(n) :
                    \A i \in 1..(n - 1) : scores[q[i]] >= scores[q[i + 1]]} }

\* lines 154-158: cosine similarity against every row, sorted() by score,
\* reverse=True (stable: equal scores keep their row order), cut to top_k
BruteForceScored(vectors, query_vec, top_k) ==
    LET n      == Len(vectors)
        nq     == Norm(query_vec)
        cosine(v) == LET norms == Norm(v) * nq
                     IN  IF norms = 0 THEN 0 ELSE (Dot(v, query_vec) * 100) \div norms
        scores_raw == [i \in 1..n |-> cosine(vectors[i])]
        rank(i) == 1 + Cardinality({j \in 1..n : scores_raw[j] > scores_raw[i]})
                     + Cardinality({j \in 1..(i - 1) : scores_raw[j] = scores_raw[i]})
        sorted == [r \in 1..n |->
                     LET i == CHOOSE i \in 1..n : rank(i) = r
                     IN  <<scores_raw[i], i - 1>>]
    IN  SubSeq(sorted, 1, Min(top_k, n))

\* bool(self._vectors): None is false, an empty array is false, a one-element array
\* is its element, and numpy refuses the truth value of a larger array
ArrayTruth(vectors) ==
    IF IsNone(vectors) THEN "False"
    ELSE LET size == ArraySize(Val(vectors))
         IN  IF size = 0 THEN "False"
             ELSE IF size = 1
                  THEN IF Val(vectors)[1][1] # 0 THEN "True" ELSE "False"
                  ELSE "ValueError"

\* TopChunks without the required_tags test
TopChunks_no_filter(s, scored, required_tags) ==
    LET passes(pair) == ~(pair[2] = -1 \/ pair[2] >= Len(s.chunks))
        kept == SelectSeq(scored, passes)
    IN  [i \in 1..Len(kept) |->
            LET chunk == s.chunks[kept[i][2] + 1]
            IN  RuleChunk(chunk.text, chunk.embedding, WithScore(chunk.metadata, kept[i][1]))]

\* lines 160-175: the copies of the scored chunks that pass the tag filter
TopChunks(s, scored, required_tags) ==
    LET passes(pair) ==
            LET idx == pair[2]
            IN  /\ ~(idx = -1 \/ idx >= Len(s.chunks))
                /\ \/ required_tags = <<>>
                   \/ LET metadata   == s.chunks[idx + 1].metadata
                          chunk_tags == IF "tags" \in DOMAIN metadata
                                        THEN metadata.tags ELSE <<>>
                      IN  \E tag \in SetOf(required_tags) : tag \in SetOf(chunk_tags)
        kept == SelectSeq(scored, passes)
    IN  [i \in 1..Len(kept) |->
            LET chunk == s.chunks[kept[i][2] + 1]
            IN  RuleChunk(chunk.text, chunk.embedding, WithScore(chunk.metadata, kept[i][1]))]

\* first leading elements of a sequence
Take(seq, n) == SubSeq(seq, 1, Min(n, Len(seq)))

\* the search that ranks every chunk, filters by tag and cuts to top_k afterwards
QuerySearch_filter_first(s, query_vec, top_k, required_tags, haveFaiss) ==
    IF ~IsNone(s.index)
    THEN {Outcome(s, "", Take(TopChunks(s, scored, required_tags), top_k), 1) :
             scored \in FaissSearch(Val(s.index), NormalizeL2(query_vec), Len(s.chunks))}
    ELSE {Outcome(s, "ValueError", <<>>, 1)}

\* the search that writes the score into the stored chunk's own metadata
QuerySearch_scores_in_place(s, query_vec, top_k, required_tags, haveFaiss) ==
    IF ~IsNone(s.index)
    THEN {Outcome([s EXCEPT !.chunks =
                       [i \in 1..Len(s.chunks) |->
                           IF \E r \in 1..Len(scored) : scored[r][2] = i - 1
                           THEN LET r == CHOOSE r \in 1..Len(scored) : scored[r][2] = i - 1
                                IN  [s.chunks[i] EXCEPT
                                        !.metadata = WithScore(s.chunks[i].metadata, scored[r][1])]
                           ELSE s.chunks[i]]],
                  "", TopChunks(s, scored, required_tags), 1) :
             scored \in FaissSearch(Val(s.index), NormalizeL2(query_vec), top_k)}
    ELSE {Outcome(s, "ValueError", <<>>, 1)}

\* query, lines 145-175: the search with the embedded query and the copies returned
QuerySearch(s, query_vec, top_k, required_tags, haveFaiss) ==
    IF ~IsNone(s.index)
    THEN IF ~haveFaiss THEN {Outcome(s, "AttributeError", <<>>, 1)}
         ELSE {Outcome(s, "", TopChunks(s, scored, required_tags), 1) :
                  scored \in FaissSearch(Val(s.index), NormalizeL2(query_vec), top_k)}
    ELSE LET truth == ArrayTruth(s.vectors)
         IN  IF truth = "ValueError" THEN {Outcome(s, "ValueError", <<>>, 1)}
             ELSE LET vectors == IF truth = "True" THEN Val(s.vectors)
                                 ELSE [i \in 1..Len(s.chunks) |-> s.chunks[i].embedding]
                  IN  IF ArraySize(vectors) = 0 THEN {Outcome(s, "", <<>>, 1)}
                      ELSE {Outcome(s, "",
                               TopChunks(s, BruteForceScored(vectors, query_vec, top_k),
                                         required_tags), 1)}

\* the embedding step without its try/except
QueryEmbedded_no_try(s, gateway, top_k, required_tags, haveFaiss) ==
    IF gateway.raised THEN {Outcome(s, "GatewayError", <<>>, 1)}
    ELSE IF gateway.data = <<>> THEN {Outcome(s, "IndexError", <<>>, 1)}
    ELSE QuerySearch(s, gateway.data[1], top_k, required_tags, haveFaiss)

\* query, lines 140-143: embed the query text; any exception gives the empty list
QueryEmbedded(s, gateway, top_k, required_tags, haveFaiss) ==
    IF gateway.raised \/ gateway.data = <<>> THEN {Outcome(s, "", <<>>, 1)}
    ELSE QuerySearch(s, gateway.data[1], top_k, required_tags, haveFaiss)

\* query without the is_ready test
query_no_ready_check(s, gateway, top_k, required_tags, haveFaiss) ==
    QueryEmbedded(s, gateway, top_k, required_tags, haveFaiss)

\* RuleStore.query: the set of its possible outcomes
query(s, gateway, top_k, required_tags, haveFaiss) ==
    IF ~is_ready(s) THEN {Outcome(s, "", <<>>, 0)}
    ELSE QueryEmbedded(s, gateway, top_k, required_tags, haveFaiss)

\* ---------------------------------------------------------------- persistence

\* a file: readable content, or bytes that no reader accepts
File(content) == [valid |-> TRUE, content |-> content]

\* the two artifacts under the path prefix, None while a file does not exist
NoFiles == [meta |-> None, faiss |-> None]

\* RuleStore.save: the files after it
save(s, files, haveFaiss) ==
    IF ~is_ready(s) THEN files
    ELSE [faiss |-> IF ~IsNone(s.index) /\ haveFaiss THEN Some(File(Val(s.index)))
                    ELSE files.faiss,
          meta  |-> Some(File([i \in 1..Len(s.chunks) |-> to_dict(s.chunks[i])]))]

\* a file whose bytes no reader accepts
CorruptFile == [valid |-> FALSE, content |-> <<>>]

\* load, lines 194-199: the body of the try, on a fresh store; it stops at the first
\* read that raises, with what it had assigned until then
LoadTry(files, haveFaiss) ==
    LET readIndex == haveFaiss /\ ~IsNone(files.faiss)
    IN  IF readIndex /\ ~Val(files.faiss).valid
        THEN Outcome(RuleStoreInit, "RuntimeError", <<>>, 0)
        ELSE LET s1 == [RuleStoreInit EXCEPT
                           !.index = IF readIndex THEN Some(Val(files.faiss).content)
                                     ELSE None]
             IN  IF ~Val(files.meta).valid
                 THEN Outcome(s1, "JSONDecodeError", <<>>, 0)
                 ELSE LET payload == Val(files.meta).content
                          chunks  == [i \in 1..Len(payload) |-> from_dict(payload[i])]
                      IN  Outcome([index   |-> s1.index,
                                   chunks  |-> chunks,
                                   vectors |-> Some([i \in 1..Len(chunks) |->
                                                        chunks[i].embedding])],
                                  "", <<>>, 0)

\* load whose except clause forgets to drop the index it has read
load_outcome_keeps_index(files, haveFaiss) ==
    IF IsNone(files.meta) THEN Outcome(RuleStoreInit, "", <<>>, 0)
    ELSE LET t == LoadTry(files, haveFaiss)
         IN  IF t.raised # ""
             THEN Outcome([t.store EXCEPT !.chunks = <<>>], "", <<>>, 0)
             ELSE t

\* RuleStore.load as a call: the store it returns and what it raises
load_outcome(files, haveFaiss) ==
    IF IsNone(files.meta) THEN Outcome(RuleStoreInit, "", <<>>, 0)
    ELSE LET t == LoadTry(files, haveFaiss)
         IN  IF t.raised # ""
             THEN Outcome([t.store EXCEPT !.index = None, !.chunks = <<>>], "", <<>>, 0)
             ELSE t

\* RuleStore.load: the store it returns
load(files, haveFaiss) == load_outcome(files, haveFaiss).store

\* ---------------------------------------------------------------- state machine

VARIABLES
    faiss,   \* whether `import faiss` succeeded in this process
    store,   \* the RuleStore in use
    disk,    \* the files under the path prefix
    last,    \* the latest call: its name, arguments and outcome
    builder, \* a thread inside RuleStore.build: its position and locals
    reader,  \* a thread inside RuleStore.query: its position, locals and reads
    page,    \* the latest generate_medical_page call
    fcall    \* a call of a pure function: its arguments and its result

vars == <<faiss, store, disk, last, builder, reader, page, fcall>>

\* no thread is inside build
BuilderIdle == [pc |-> "idle"]
\* no thread is inside query
ReaderIdle == [pc |-> "idle"]
\* generate_medical_page was not called
NoPage == [called |-> FALSE]
\* no pure function was called
NoCall == [fn |-> ""]

\* what the calls made one at a time leave alone
threadVars == <<builder, reader>>

\* build(client, raw_text, tags): the tags arguments tried
TagsChoices == {<<>>}
\* query(..., required_tags): None or a list
RequiredTagsChoices == {<<>>, <<"seo">>, <<"cta", "tone">>}

\* the gateway field of a call that never reached the gateway
NoGatewayCall == [raised |-> FALSE, data |-> <<>>]

\* doc: the raw_text of a build, by its name in DocIds ("" for the other calls);
\* after_save: whether the call before this one was save (recorded for load only)
Call(op, doc, out, top_k, required_tags, gateway, after_save) ==
    [op |-> op, doc |-> doc, raised |-> out.raised, result |-> out.result,
     gw |-> out.gw, top_k |-> top_k, required_tags |-> required_tags,
     gateway |-> IF out.gw > 0 THEN gateway ELSE NoGatewayCall,
     after_save |-> after_save]

Init ==
    /\ faiss \in BOOLEAN
    /\ store = RuleStoreInit
    /\ disk = NoFiles
    /\ last = Call("init", "", Outcome(RuleStoreInit, "", <<>>, 0), 0, <<>>, NoGatewayCall, FALSE)
    /\ builder = BuilderIdle /\ reader = ReaderIdle
    /\ page = NoPage /\ fcall = NoCall

Build ==
    \E d \in DocIds, tags \in TagsChoices :
        \E gateway \in BuildGatewayOutcomes(Len(BuildChunkTexts[d])) :
            LET out == build(store, BuildChunkTexts[d], BuildChunkGuess[d], tags, gateway, faiss)
            IN  /\ store' = out.store
                /\ last' = Call("build", d, out, 0, <<>>, gateway, FALSE)
                /\ UNCHANGED <<faiss, disk>>
                /\ UNCHANGED <<threadVars, page, fcall>>

Query ==
    \E gateway \in QueryGatewayOutcomes, top_k \in 1..MaxTopK,
       required_tags \in RequiredTagsChoices :
        \E out \in query(store, gateway, top_k, required_tags, faiss) :
            /\ store' = out.store
            /\ last' = Call("query", "", out, top_k, required_tags, gateway, FALSE)
            /\ UNCHANGED <<faiss, disk>>
            /\ UNCHANGED <<threadVars, page, fcall>>

Save ==
    /\ disk' = save(store, disk, faiss)
    /\ last' = Call("save", "", Outcome(store, "", <<>>, 0), 0, <<>>, NoGatewayCall, FALSE)
    /\ UNCHANGED <<faiss, store>>
    /\ UNCHANGED <<threadVars, page, fcall>>

Load ==
    /\ store' = load(disk, faiss)
    /\ last' = Call("load", "", load_outcome(disk, faiss), 0, <<>>, NoGatewayCall,
                    last.op = "save")
    /\ UNCHANGED <<faiss, disk>>
    /\ UNCHANGED <<threadVars, page, fcall>>

Next == Build \/ Query \/ Save \/ Load

Spec == Init /\ [][Next]_vars

\* ------------------------------------------------- the files and the process change

\* what happens to the store's files and process outside RuleStore
EnvCall == Call("env", "", Outcome(RuleStoreInit, "", <<>>, 0), 0, <<>>, NoGatewayCall, FALSE)

\* the fast-index artifact is removed
DeleteIndexFile ==
    /\ ~IsNone(disk.faiss)
    /\ disk' = [disk EXCEPT !.faiss = None]
    /\ last' = EnvCall
    /\ UNCHANGED <<faiss, store>>
    /\ UNCHANGED <<threadVars, page, fcall>>

\* the fast-index artifact is damaged
CorruptIndexFile ==
    /\ ~IsNone(disk.faiss) /\ Val(disk.faiss).valid
    /\ disk' = [disk EXCEPT !.faiss = Some(CorruptFile)]
    /\ last' = EnvCall
    /\ UNCHANGED <<faiss, store>>
    /\ UNCHANGED <<threadVars, page, fcall>>

\* the metadata file is damaged
CorruptMetaFile ==
    /\ ~IsNone(disk.meta) /\ Val(disk.meta).valid
    /\ disk' = [disk EXCEPT !.meta = Some(CorruptFile)]
    /\ last' = EnvCall
    /\ UNCHANGED <<faiss, store>>
    /\ UNCHANGED <<threadVars, page, fcall>>

\* a new process starts, with or without the fast-index library, on a new RuleStore
Restart ==
    /\ faiss' \in BOOLEAN
    /\ store' = RuleStoreInit
    /\ last' = EnvCall
    /\ UNCHANGED disk
    /\ UNCHANGED <<threadVars, page, fcall>>

\* the store is built, saved and loaded while its files and its process change
NextFiles ==
    \/ Build \/ Save \/ Load
    \/ DeleteIndexFile \/ CorruptIndexFile \/ CorruptMetaFile \/ Restart

SpecFiles == Init /\ [][NextFiles]_vars

\* the same, with queries
NextEnv ==
    \/ Build \/ Query \/ Save \/ Load
    \/ DeleteIndexFile \/ CorruptIndexFile \/ CorruptMetaFile \/ Restart

SpecEnv == Init /\ [][NextEnv]_vars

\* ================================================================ claims

\* the gateway was called and gave no usable answer
GatewayFailed(call) == call.gw = 1 /\ (call.gateway.raised \/ call.gateway.data = <<>>)
\* the gateway was called and answered with the vector(s) asked for
GatewayAnswered(call) == call.gw = 1 /\ ~call.gateway.raised /\ call.gateway.data # <<>>

\* C1: when the gateway call of build raises, build raises too and the store is
\* exactly as before: chunks, index and brute-force vectors are unchanged.
C1_FailedBuildLeavesStore ==
    [][(last'.op = "build" /\ last'.gw = 1 /\ last'.gateway.raised)
          => (last'.raised = "GatewayError" /\ store' = store)]_vars

\* a ready store that has just survived a failed build
C1_Witness ==
    /\ last.op = "build" /\ last.gw = 1 /\ last.gateway.raised
    /\ last.raised = "GatewayError"
    /\ Len(store.chunks) = 2

\* the matrix the brute-force path searches: self._vectors, or the chunk embeddings
BruteForceMatrix(s) ==
    IF IsNone(s.vectors) THEN [i \in 1..Len(s.chunks) |-> s.chunks[i].embedding]
    ELSE Val(s.vectors)

\* the vectors query searches: those of the fast index, or the brute-force matrix
SearchVectors(s) == IF ~IsNone(s.index) THEN Val(s.index) ELSE BruteForceMatrix(s)

C3_QueryEmbedFailureIsEmpty ==
    [][(last'.op = "query" /\ is_ready(store) /\ GatewayFailed(last'))
          => (last'.raised = "" /\ last'.result = <<>> /\ store' = store)]_vars

\* a query on a ready store whose gateway call answered with no vector
C3_Witness ==
    /\ last.op = "query" /\ is_ready(store)
    /\ last.gw = 1 /\ ~last.gateway.raised /\ last.gateway.data = <<>>
    /\ last.result = <<>>

\* C4: query on a store that is not ready returns the empty list, raises nothing
\* and does not call the gateway.
C4_NotReadyQueryIsEmpty ==
    [][(last'.op = "query" /\ ~is_ready(store))
          => (last'.raised = "" /\ last'.result = <<>> /\ last'.gw = 0 /\ store' = store)]_vars

\* a query on a store that a build of blank text has emptied
C4_Witness ==
    /\ last.op = "query" /\ ~is_ready(store) /\ ~IsNone(store.vectors)
    /\ last.result = <<>> /\ last.gw = 0

\* cosine similarity of two vectors, in hundredths
Cosine(a, b) ==
    LET norms == Norm(a) * Norm(b)
    IN  IF norms = 0 THEN 0 ELSE (Dot(a, b) * 100) \div norms

\* the orders of the stored chunks by descending cosine similarity to the vector q
Rankings(s, q) ==
    {p \in Bijections(Len(s.chunks)) :
        \A i \in 1..(Len(s.chunks) - 1) :
            Cosine(s.chunks[p[i]].embedding, q) >= Cosine(s.chunks[p[i + 1]].embedding, q)}

\* r has the text and embedding of the stored chunk, and its metadata plus the
\* score of the query vector q
IsScoredCopy(r, chunk, q) ==
    /\ r.text = chunk.text
    /\ r.embedding = chunk.embedding
    /\ DOMAIN r.metadata = (DOMAIN chunk.metadata) \cup {"score"}
    /\ \A key \in DOMAIN chunk.metadata : r.metadata[key] = chunk.metadata[key]
    /\ r.metadata.score = Cosine(chunk.embedding, q)

\* the chunk carries at least one of the required tags
CarriesTag(chunk, required_tags) ==
    SetOf(chunk.metadata.tags) \cap SetOf(required_tags) # {}

\* C5: on a ready store of N chunks, without required_tags, query(top_k=k) raises
\* nothing and returns min(k, N) chunks: those of highest cosine similarity to the
\* query vector, best first.
C5_TopKByCosine ==
    (last.op = "query" /\ is_ready(store) /\ last.required_tags = <<>>
        /\ GatewayAnswered(last))
    => /\ last.raised = ""
       /\ Len(last.result) = Min(last.top_k, Len(store.chunks))
       /\ \E p \in Rankings(store, last.gateway.data[1]) :
              \A i \in 1..Len(last.result) :
                  IsScoredCopy(last.result[i], store.chunks[p[i]], last.gateway.data[1])

\* C6: with required_tags given, every returned chunk carries a required tag.
C6_ReturnedChunksCarryRequiredTag ==
    (last.op = "query" /\ last.required_tags # <<>>)
    => \A i \in 1..Len(last.result) : CarriesTag(last.result[i], last.required_tags)

\* a filtered query of two candidates that kept one and dropped the other
C6_Witness ==
    /\ last.op = "query" /\ last.required_tags # <<>>
    /\ last.top_k = 2 /\ Len(store.chunks) = 2 /\ Len(last.result) = 1
    /\ \E i \in 1..2 : ~CarriesTag(store.chunks[i], last.required_tags)

WithFastIndex(s) ==
    [s EXCEPT !.index = Some([i \in 1..Len(s.chunks) |-> NormalizeL2(s.chunks[i].embedding)])]

\* C8: without the fast-index library, query on a ready store raises nothing and
\* returns a sequence that the fast index returns for the same corpus and arguments.
C8_BruteForceMatchesFastIndex ==
    (last.op = "query" /\ ~faiss /\ is_ready(store) /\ GatewayAnswered(last))
    => /\ last.raised = ""
       /\ last.result \in
              {o.result : o \in QuerySearch(WithFastIndex(store), last.gateway.data[1],
                                            last.top_k, last.required_tags, TRUE)}

\* C9: a query leaves the store as it was, no stored metadata has a score key, and
\* every returned chunk is a stored chunk with the score of this query added.
C9_QueryIsReadOnly ==
    [][last'.op = "query"
          => /\ store' = store
             /\ \A i \in 1..Len(store'.chunks) : "score" \notin DOMAIN store'.chunks[i].metadata
             /\ \A r \in 1..Len(last'.result) :
                    \E i \in 1..Len(store.chunks) :
                        IsScoredCopy(last'.result[r], store.chunks[i],
                                     last'.gateway.data[1])]_vars

\* a query that returned two scored copies
C9_Witness ==
    /\ last.op = "query" /\ Len(last.result) = 2
    /\ \A r \in 1..2 : "score" \in DOMAIN last.result[r].metadata

\* C10 as stated: save followed by load yields the chunks of the saved store, for
\* any number of chunks and whatever the path held before.
C10_SaveLoadRoundTrip ==
    [][(last.op = "save" /\ last'.op = "load") => store'.chunks = store.chunks]_vars

\* C10 amended: save followed by load yields the chunks of the saved store when
\* the store is ready, or when it is empty and no metadata file exists at the path.
C10_SaveLoadRoundTripReadyOrFresh ==
    [][(last.op = "save" /\ last'.op = "load" /\ (is_ready(store) \/ IsNone(disk.meta)))
          => store'.chunks = store.chunks]_vars

\* a store of two chunks with different embeddings, loaded right after a save
C10_Witness ==
    /\ last.op = "load" /\ last.after_save
    /\ Len(store.chunks) = 2
    /\ store.chunks[1].embedding # store.chunks[2].embedding

\* the text is empty or holds whitespace only
IsBlank(text) == \A i \in 1..Len(text) : text[i] \in Whitespace

\* the documents that are empty or hold whitespace only
BlankDocs == {d \in DocIds : IsBlank(Doc(d))}

\* C13: build of empty or whitespace-only text raises nothing, does not call the
\* gateway, returns the empty list and leaves the store not ready, with no chunks
\* and no index, also when the store was ready before.
C13_BlankBuildEmptiesStore ==
    [][(last'.op = "build" /\ last'.doc \in BlankDocs)
          => /\ last'.raised = "" /\ last'.gw = 0 /\ last'.result = <<>>
             /\ store'.chunks = <<>> /\ IsNone(store'.index) /\ ~is_ready(store')]_vars

\* a build of whitespace-only text on a store that held a built corpus before
C13_Witness ==
    /\ last.op = "build" /\ last.doc \in BlankDocs /\ last.doc # "empty"
    /\ ~IsNone(store.vectors) /\ ~is_ready(store)

\* the file exists and no reader accepts it
IsCorrupt(file) == ~IsNone(file) /\ ~Val(file).valid

\* C11 as stated: load raises nothing, and returns a store without chunks and without
\* index when the metadata file is missing or when the metadata or the fast-index
\* artifact is corrupt.
C11_LoadNeverRaises ==
    [][last'.op = "load"
          => /\ last'.raised = ""
             /\ (IsNone(disk.meta) \/ IsCorrupt(disk.meta) \/ IsCorrupt(disk.faiss))
                    => (store'.chunks = <<>> /\ IsNone(store'.index))]_vars

\* C11 amended: the same, for a corrupt fast-index artifact only when load reads it,
\* that is when the fast-index library is available.
C11_LoadNeverRaisesReadFiles ==
    [][last'.op = "load"
          => /\ last'.raised = ""
             /\ (IsNone(disk.meta) \/ IsCorrupt(disk.meta) \/ (faiss /\ IsCorrupt(disk.faiss)))
                    => (store'.chunks = <<>> /\ IsNone(store'.index))]_vars

\* a load that read a good fast-index artifact and then met corrupt metadata
C11_Witness ==
    /\ last.op = "load" /\ last.raised = ""
    /\ faiss /\ ~IsNone(disk.faiss) /\ Val(disk.faiss).valid /\ IsCorrupt(disk.meta)
    /\ store.chunks = <<>> /\ IsNone(store.index)

\* C12: a query on a ready store that was loaded from the metadata file alone, the
\* fast-index artifact being absent, raises nothing and returns what the store with
\* its fast index returns.
C12_MetadataAloneStoreAnswers ==
    (last.op = "query" /\ faiss /\ IsNone(store.index) /\ is_ready(store)
        /\ GatewayAnswered(last))
    => /\ last.raised = ""
       /\ last.result \in
              {o.result : o \in QuerySearch(WithFastIndex(store), last.gateway.data[1],
                                            last.top_k, last.required_tags, TRUE)}

\* ------------------------------------------- build and query in two threads

\* the texts a thread rebuilds the store from
ThreadDocIds == {"blank", "short", "long"}

\* build, lines 107-114: the thread chunks the text and calls the gateway, on its own
\* locals; a gateway failure ends the call with the store untouched
BuildEnter ==
    /\ builder.pc = "idle"
    /\ \E d \in ThreadDocIds :
         \E gateway \in BuildGatewayOutcomes(Len(BuildChunkTexts[d])) :
            LET out == build(store, BuildChunkTexts[d], BuildChunkGuess[d], <<>>, gateway, faiss)
            IN  builder' = IF BuildChunkTexts[d] = <<>>
                           THEN [pc |-> "blank_index", prev |-> store,
                                 final |-> out.store, embeddings |-> <<>>]
                           ELSE IF gateway.raised THEN BuilderIdle
                           ELSE [pc |-> "vectors", prev |-> store,
                                 final |-> out.store, embeddings |-> gateway.data]
    /\ UNCHANGED <<faiss, store, disk, last, reader, page, fcall>>

\* line 110
BuildBlankIndex ==
    /\ builder.pc = "blank_index"
    /\ store' = [store EXCEPT !.index = None]
    /\ builder' = [builder EXCEPT !.pc = "blank_chunks"]
    /\ UNCHANGED <<faiss, disk, last, reader, page, fcall>>

\* lines 111-112
BuildBlankChunks ==
    /\ builder.pc = "blank_chunks"
    /\ store' = [store EXCEPT !.chunks = <<>>]
    /\ builder' = BuilderIdle
    /\ UNCHANGED <<faiss, disk, last, reader, page, fcall>>

\* line 116: self._vectors is the array of the embeddings as the gateway gave them
BuildSetVectors ==
    /\ builder.pc = "vectors"
    /\ store' = [store EXCEPT !.vectors = Some(builder.embeddings)]
    /\ builder' = [builder EXCEPT !.pc = IF faiss THEN "normalize" ELSE "index"]
    /\ UNCHANGED <<faiss, disk, last, reader, page, fcall>>

\* line 119: normalize_L2 works in place on the array self._vectors names
BuildNormalize ==
    /\ builder.pc = "normalize"
    /\ store' = [store EXCEPT !.vectors = builder.final.vectors]
    /\ builder' = [builder EXCEPT !.pc = "index"]
    /\ UNCHANGED <<faiss, disk, last, reader, page, fcall>>

\* lines 120-123
BuildSetIndex ==
    /\ builder.pc = "index"
    /\ store' = [store EXCEPT !.index = builder.final.index]
    /\ builder' = [builder EXCEPT !.pc = "clear"]
    /\ UNCHANGED <<faiss, disk, last, reader, page, fcall>>

\* line 124
BuildClearChunks ==
    /\ builder.pc = "clear"
    /\ store' = [store EXCEPT !.chunks = <<>>]
    /\ builder' = [builder EXCEPT !.pc = "append"]
    /\ UNCHANGED <<faiss, disk, last, reader, page, fcall>>

\* lines 125-127: one chunk per turn of the loop
BuildAppend ==
    /\ builder.pc = "append"
    /\ Len(store.chunks) < Len(builder.final.chunks)
    /\ store' = [store EXCEPT
                    !.chunks = Append(store.chunks,
                                      builder.final.chunks[Len(store.chunks) + 1])]
    /\ UNCHANGED <<faiss, disk, last, builder, reader, page, fcall>>

\* line 128
BuildReturn ==
    /\ builder.pc = "append"
    /\ Len(store.chunks) >= Len(builder.final.chunks)
    /\ builder' = BuilderIdle
    /\ UNCHANGED <<faiss, store, disk, last, reader, page, fcall>>

\* what a query thread has read of the store so far: nothing
NoReads == [index |-> None, vectors |-> None, chunks |-> None]

\* the query thread at its return
ReaderDone(reads, raised, result) ==
    [pc |-> "done", reads |-> reads, raised |-> raised, result |-> result]

\* query, lines 137-143: the is_ready test and the embedding of the query text
QueryEnter ==
    /\ reader.pc \in {"idle", "done"}
    /\ \E gateway \in QueryGatewayOutcomes :
         reader' = IF ~is_ready(store) \/ gateway.raised \/ gateway.data = <<>>
                   THEN ReaderDone(NoReads, "", <<>>)
                   ELSE [pc |-> "search", query_vec |-> gateway.data[1], reads |-> NoReads]
    /\ UNCHANGED <<faiss, store, disk, last, builder, page, fcall>>

\* lines 145-158: the thread reads self.index, and self._vectors when there is no
\* index
QuerySearchStep ==
    /\ reader.pc = "search"
    /\ reader' = IF ~IsNone(store.index)
                 THEN [reader EXCEPT !.pc = "collect", !.reads.index = Some(store.index)]
                 ELSE IF ArrayTruth(store.vectors) = "ValueError"
                 THEN ReaderDone([reader.reads EXCEPT !.index = Some(store.index),
                                                      !.vectors = Some(store.vectors)],
                                 "ValueError", <<>>)
                 ELSE [reader EXCEPT !.pc = "collect", !.reads.index = Some(store.index),
                                     !.reads.vectors = Some(store.vectors)]
    /\ UNCHANGED <<faiss, store, disk, last, builder, page, fcall>>

\* the store a query thread has put together from its reads
ReadStore(reads) ==
    [index   |-> IF IsNone(reads.index) THEN None ELSE Val(reads.index),
     vectors |-> IF IsNone(reads.vectors) THEN None ELSE Val(reads.vectors),
     chunks  |-> IF IsNone(reads.chunks) THEN <<>> ELSE Val(reads.chunks)]

\* lines 160-175: the thread reads self.chunks and returns the chunks its scored
\* positions name
QueryCollect ==
    /\ reader.pc = "collect"
    /\ LET reads == [reader.reads EXCEPT !.chunks = Some(store.chunks)]
       IN  \E out \in QuerySearch(ReadStore(reads), reader.query_vec, MaxTopK, <<>>, faiss) :
              reader' = ReaderDone(reads, out.raised, out.result)
    /\ UNCHANGED <<faiss, store, disk, last, builder, page, fcall>>

InitThreads ==
    /\ faiss \in BOOLEAN
    /\ store = RuleStoreInit
    /\ disk = NoFiles
    /\ last = Call("init", "", Outcome(RuleStoreInit, "", <<>>, 0), 0, <<>>, NoGatewayCall, FALSE)
    /\ builder = BuilderIdle /\ reader = ReaderIdle
    /\ page = NoPage /\ fcall = NoCall

NextThreads ==
    \/ BuildEnter \/ BuildBlankIndex \/ BuildBlankChunks \/ BuildSetVectors
    \/ BuildNormalize \/ BuildSetIndex \/ BuildClearChunks \/ BuildAppend \/ BuildReturn
    \/ QueryEnter \/ QuerySearchStep \/ QueryCollect

SpecThreads == InitThreads /\ [][NextThreads]_vars

\* the corpora a query can meet: the store's while no build runs, and during a build
\* the one before it and the one it ends with
Corpora == IF builder.pc = "idle" THEN {store} ELSE {builder.prev, builder.final}

\* the reads of a query thread all come from the corpus v
ReadsFrom(reads, v) ==
    /\ ~IsNone(reads.index) => Val(reads.index) = v.index
    /\ ~IsNone(reads.vectors) => Val(reads.vectors) = v.vectors
    /\ ~IsNone(reads.chunks) => Val(reads.chunks) = v.chunks

\* C14: a query that runs while build runs on the same store has read, at its
\* return, the index, the vectors and the chunks of one corpus: the one before the
\* build or the one after it.
C14_QuerySeesOneCorpus ==
    [][(reader.pc # "done" /\ reader'.pc = "done")
          => \E v \in Corpora : ReadsFrom(reader'.reads, v)]_vars

\* ---------------------------------------------------------------- prompt builder

\* static_rules is a dict in insertion order: a sequence of [section, rules] entries
\* with distinct sections, rules a sequence of texts

\* the block of an empty static_rules
NoStaticRules == "No static rules available."
\* the block of an empty retrieval
NoDynamicRules == "No dynamic golden rule snippets retrieved; rely on static core rules."

\* the de-duplication comparing the stripped rules as they are written
RECURSIVE DedupeRules_case_sensitive(_, _, _, _)
DedupeRules_case_sensitive(rules, i, seen, deduped_rules) ==
    IF i > Len(rules) THEN deduped_rules
    ELSE LET normalized == Strip(rules[i])
         IN  IF normalized = <<>> \/ normalized \in seen
             THEN DedupeRules_case_sensitive(rules, i + 1, seen, deduped_rules)
             ELSE DedupeRules_case_sensitive(rules, i + 1, seen \cup {normalized},
                                             Append(deduped_rules, normalized))

\* the de-duplication comparing the rules before they are stripped
RECURSIVE DedupeRules_compare_unstripped(_, _, _, _)
DedupeRules_compare_unstripped(rules, i, seen, deduped_rules) ==
    IF i > Len(rules) THEN deduped_rules
    ELSE LET normalized == Strip(rules[i])
         IN  IF normalized = <<>> \/ Lower(rules[i]) \in seen
             THEN DedupeRules_compare_unstripped(rules, i + 1, seen, deduped_rules)
             ELSE DedupeRules_compare_unstripped(rules, i + 1, seen \cup {Lower(rules[i])},
                                                 Append(deduped_rules, normalized))

\* _format_rule_block, lines 27-33: the stripped rules of one section, without the
\* blank ones and without those whose lower-cased text was seen before
RECURSIVE DedupeRules(_, _, _, _)
DedupeRules(rules, i, seen, deduped_rules) ==
    IF i > Len(rules) THEN deduped_rules
    ELSE LET normalized == Strip(rules[i])
         IN  IF normalized = <<>> \/ Lower(normalized) \in seen
             THEN DedupeRules(rules, i + 1, seen, deduped_rules)
             ELSE DedupeRules(rules, i + 1, seen \cup {Lower(normalized)},
                              Append(deduped_rules, normalized))

\* _format_rule_block, lines 23-40: the sections that are rendered, each with its
\* title line and its "- rule" lines
RECURSIVE RuleSections(_, _, _)
RuleSections(static_rules, i, sections) ==
    IF i > Len(static_rules) THEN sections
    ELSE LET rules         == static_rules[i].rules
             deduped_rules == DedupeRules(rules, 1, {}, <<>>)
         IN  IF rules = <<>> \/ deduped_rules = <<>>
             THEN RuleSections(static_rules, i + 1, sections)
             ELSE RuleSections(static_rules, i + 1,
                      Append(sections,
                             [title |-> Title(static_rules[i].section),
                              lines |-> [k \in 1..Len(deduped_rules) |->
                                            <<"-", " ">> \o deduped_rules[k]]]))

\* _format_rule_block: the fixed sentence, or the sections that "\n\n" joins
_format_rule_block(static_rules) ==
    IF static_rules = <<>> THEN [text |-> NoStaticRules, sections |-> <<>>]
    ELSE [text |-> "", sections |-> RuleSections(static_rules, 1, <<>>)]

\* the de-duplication of the chunks comparing their stripped texts as written
RECURSIVE UniqueDynamic_case_sensitive(_, _, _, _)
UniqueDynamic_case_sensitive(chunks, i, seen_texts, unique_chunks) ==
    IF i > Len(chunks) THEN unique_chunks
    ELSE LET normalized == Strip(chunks[i].text)
         IN  IF normalized = <<>> \/ normalized \in seen_texts
             THEN UniqueDynamic_case_sensitive(chunks, i + 1, seen_texts, unique_chunks)
             ELSE UniqueDynamic_case_sensitive(chunks, i + 1,
                                               seen_texts \cup {normalized},
                                               Append(unique_chunks, chunks[i]))

\* _format_dynamic_rules, lines 49-56: the chunks without those of blank text and
\* without those whose stripped lower-cased text was seen before
RECURSIVE UniqueDynamic(_, _, _, _)
UniqueDynamic(chunks, i, seen_texts, unique_chunks) ==
    IF i > Len(chunks) THEN unique_chunks
    ELSE LET normalized == Strip(chunks[i].text)
         IN  IF normalized = <<>> \/ Lower(normalized) \in seen_texts
             THEN UniqueDynamic(chunks, i + 1, seen_texts, unique_chunks)
             ELSE UniqueDynamic(chunks, i + 1, seen_texts \cup {Lower(normalized)},
                                Append(unique_chunks, chunks[i]))

\* the formatter without its second test, the one after the de-duplication
_format_dynamic_rules_one_test(chunks) ==
    IF chunks = <<>> THEN [text |-> NoDynamicRules, snippets |-> <<>>]
    ELSE [text |-> "", snippets |-> <<>>]

\* _format_dynamic_rules: the fixed sentence, or the numbered snippets with their
\* tags, their similarity when the metadata holds one, and their stripped text
_format_dynamic_rules(chunks) ==
    LET unique_chunks == UniqueDynamic(chunks, 1, {}, <<>>)
    IN  IF chunks = <<>> \/ unique_chunks = <<>>
        THEN [text |-> NoDynamicRules, snippets |-> <<>>]
        ELSE [text |-> "",
              snippets |-> [k \in 1..Len(unique_chunks) |->
                  LET metadata == unique_chunks[k].metadata
                  IN  [idx  |-> k,
                       tags |-> IF "tags" \in DOMAIN metadata THEN metadata.tags ELSE <<>>,
                       sim  |-> IF "score" \in DOMAIN metadata
                                THEN Some(metadata.score) ELSE None,
                       text |-> Strip(unique_chunks[k].text)]]]

\* build_hybrid_prompt: the two rule blocks of the prompt, and the diagnostics
build_hybrid_prompt(static_rules, dynamic_rules) ==
    [prompt      |-> [static_block  |-> _format_rule_block(static_rules),
                      dynamic_block |-> _format_dynamic_rules(dynamic_rules)],
     diagnostics |-> [static_rules  |-> [i \in 1..Len(static_rules) |->
                                            static_rules[i].section],
                      dynamic_rules |-> [i \in 1..Len(dynamic_rules) |->
                                            dynamic_rules[i].metadata]]]

\* ---------------------------------------------------------------- page generation

\* generate_medical_page(..., top_rules=12)
DefaultTopRules == 12

\* lines 279-285: the tags a page type asks of the retrieved rules
PageTags(page_type) ==
    CASE page_type = "home"        -> <<"structure", "tone", "cta">>
      [] page_type = "service"     -> <<"seo", "structure", "cta">>
      [] page_type = "sub service" -> <<"seo", "structure">>
      [] page_type = "about"       -> <<"tone", "structure">>
      [] page_type = "location"    -> <<"seo", "structure", "cta">>
      [] OTHER                     -> <<"general">>

\* the page types, modes, golden rule texts and static rules tried
PageTypes == {"service", "blog"}
GoldenRules == {<<"retrieval", "blank">>, <<"full_text", "blank">>, <<"full_text", "short">>}
CoreRules == << [section |-> <<"s","e","o">>, rules |-> << <<"U","s","e"," ","x">> >>] >>

\* what call_openai_json and safe_json_loads do with the prompt
LlmOutcomes == {"answers", "raises"}

\* lines 287-290: the dynamic rules, or the exception that leaves the function
Retrievals(rule_store, page_type, golden_rule_mode, golden_rule_text, gateway, haveFaiss) ==
    IF golden_rule_mode = "full_text" /\ Strip(golden_rule_text) # <<>>
    THEN {[raised |-> "",
           rules  |-> <<RuleChunk(Strip(golden_rule_text), <<>>,
                                  [tags |-> <<"full_text">>])>>]}
    ELSE IF ~IsNone(rule_store) /\ is_ready(Val(rule_store))
    THEN {[raised |-> o.raised, rules |-> o.result] :
             o \in query(Val(rule_store), gateway, DefaultTopRules, PageTags(page_type),
                         haveFaiss)}
    ELSE {[raised |-> "", rules |-> <<>>]}

\* generate_medical_page: the set of its possible outcomes.  The diagnostics that
\* build_hybrid_prompt returns are bound at line 292 and read by nothing after it.
generate_medical_page(rule_store, page_type, golden_rule_mode, golden_rule_text, gateway, llm, haveFaiss) ==
    {IF r.raised # ""
     THEN [called |-> TRUE, raised |-> r.raised, dynamic_rules |-> <<>>,
           prompt |-> None, diagnostics |-> None, llm_called |-> FALSE]
     ELSE LET built == build_hybrid_prompt(CoreRules, r.rules)
          IN  [called |-> TRUE, raised |-> IF llm = "raises" THEN "LlmError" ELSE "",
               dynamic_rules |-> r.rules,
               prompt |-> Some(built.prompt), diagnostics |-> Some(built.diagnostics),
               llm_called |-> TRUE] :
       r \in Retrievals(rule_store, page_type, golden_rule_mode, golden_rule_text,
                        gateway, haveFaiss)}

\* one page is generated, with the store or with rule_store=None
Generate ==
    /\ \E rule_store \in {None, Some(store)}, page_type \in PageTypes,
          golden \in GoldenRules, gateway \in QueryGatewayOutcomes, llm \in LlmOutcomes :
         \E out \in generate_medical_page(rule_store, page_type, golden[1],
                                          Doc(golden[2]), gateway, llm, faiss) :
            page' = out @@ [store_given |-> ~IsNone(rule_store), page_type |-> page_type,
                            full_text |-> golden = <<"full_text", "short">>,
                            gateway |-> gateway]
    /\ UNCHANGED <<faiss, store, disk, last, threadVars, fcall>>

NextPages == Build \/ Generate

SpecPages == Init /\ [][NextPages]_vars

\* C15: a page generation that retrieves its dynamic rules (no full golden rule
\* text) assembles the prompt and calls the LLM whatever the rule store is, and when
\* it has no dynamic rule the prompt holds the no-dynamic-snippets sentence and the
\* diagnostics list no dynamic rule.
C15_RetrievalNeverBlocksGeneration ==
    (page.called /\ ~page.full_text)
    => /\ ~IsNone(page.prompt) /\ page.llm_called
       /\ page.dynamic_rules = <<>>
              => /\ Val(page.prompt).dynamic_block.text = NoDynamicRules
                 /\ Val(page.diagnostics).dynamic_rules = <<>>

\* ---------------------------------------------------------------- chunker calls

\* the words of the texts given to the chunker
ChunkerWords == {<<"a">>, <<"b", "c">>}

\* a text of the given words: "plain" with one space between two words, "ragged"
\* with whitespace before, between and after
TextOf(words, layout) ==
    IF layout = "plain" THEN JoinWords(words)
    ELSE <<"\n">> \o ConcatRange([i \in 1..Len(words) |-> words[i] \o <<" ", "\t", " ">>],
                                 1, Len(words))

ChunkerTexts ==
    {TextOf(words, layout) :
        words \in UNION {[1..n -> ChunkerWords] : n \in 0..MaxWords},
        layout \in {"plain", "ragged"}}

\* a call of chunk_golden_rules that has not run yet
InitChunker ==
    /\ fcall \in {[fn |-> "chunk_golden_rules", text |-> text, chunk_size_words |-> size,
                   overlap_words |-> overlap, done |-> FALSE, result |-> <<>>] :
                     text \in ChunkerTexts, size \in 1..MaxChunkSize,
                     overlap \in 0..MaxOverlap}
    /\ faiss = FALSE /\ store = RuleStoreInit /\ disk = NoFiles
    /\ last = Call("init", "", Outcome(RuleStoreInit, "", <<>>, 0), 0, <<>>, NoGatewayCall, FALSE)
    /\ builder = BuilderIdle /\ reader = ReaderIdle /\ page = NoPage

\* chunk_golden_rules runs
ChunkerCall ==
    /\ fcall.fn = "chunk_golden_rules" /\ ~fcall.done
    /\ fcall' = [fcall EXCEPT !.done = TRUE,
                              !.result = chunk_golden_rules(fcall.text, fcall.chunk_size_words,
                                                            fcall.overlap_words)]
    /\ UNCHANGED <<faiss, store, disk, last, threadVars, page>>

NextChunker == ChunkerCall

SpecChunker == InitChunker /\ [][NextChunker]_vars

\* the positions of a text where a word begins
WordStarts(text) ==
    {i \in 1..Len(text) : text[i] \notin Whitespace /\ (i = 1 \/ text[i - 1] \in Whitespace)}

\* the word of a text that begins at position i
WordAt(text, i) ==
    LET ends == {j \in i..Len(text) : \A k \in i..j : text[k] \notin Whitespace}
    IN  SubSeq(text, i, CHOOSE j \in ends : \A k \in ends : k <= j)

\* the words of a text, in order: its maximal runs of characters that are not
\* whitespace
WordsOf(text) ==
    LET starts == WordStarts(text)
    IN  [n \in 1..Cardinality(starts) |->
            WordAt(text, CHOOSE i \in starts : Cardinality({j \in starts : j < i}) = n - 1)]

\* the chunks merged in order: all words of the first, and of every later chunk the
\* words after the overlap_words ones it repeats (none repeated when overlap_words
\* is not below chunk_size_words)
RECURSIVE MergeChunks(_, _, _)
MergeChunks(chunks, i, shared) ==
    IF i > Len(chunks) THEN <<>>
    ELSE LET words == WordsOf(chunks[i])
             fresh == IF i = 1 THEN words
                      ELSE SubSeq(words, Min(shared, Len(words)) + 1, Len(words))
         IN  fresh \o MergeChunks(chunks, i + 1, shared)

\* a finished chunker call
ChunkerDone == fcall.fn = "chunk_golden_rules" /\ fcall.done

\* C16: the chunks of a text with at least one word, merged in order with their
\* overlaps taken once, are the words of the text in their order.
C16_ChunksCoverAllWords ==
    (ChunkerDone /\ WordsOf(fcall.text) # <<>>)
    => MergeChunks(fcall.result, 1,
                   IF fcall.overlap_words < fcall.chunk_size_words
                   THEN fcall.overlap_words ELSE 0) = WordsOf(fcall.text)

\* C17: every chunk holds at least 1 and at most chunk_size_words words; a text with
\* a word gives at least one chunk, a text without any gives the empty list.
C17_ChunkSizeBound ==
    ChunkerDone
    => /\ \A i \in 1..Len(fcall.result) :
             /\ Len(WordsOf(fcall.result[i])) >= 1
             /\ Len(WordsOf(fcall.result[i])) <= fcall.chunk_size_words
       /\ WordsOf(fcall.text) # <<>> => fcall.result # <<>>
       /\ WordsOf(fcall.text) = <<>> => fcall.result = <<>>

\* a ragged text of the most words, cut into several chunks of which the last is short
C17_Witness ==
    /\ ChunkerDone /\ Len(WordsOf(fcall.text)) = MaxWords /\ fcall.text[1] \in Whitespace
    /\ Len(fcall.result) >= 2 /\ fcall.chunk_size_words >= 2
    /\ Len(WordsOf(fcall.result[Len(fcall.result)])) < fcall.chunk_size_words

\* the windows of C18: window i (from 0) starts at word i * (size - overlap), and the
\* last one is the first to reach the final word
Windows(words, size, overlap) ==
    LET step == size - overlap
        lastw == CHOOSE k \in 0..Len(words) :
                     /\ k * step + size >= Len(words)
                     /\ \A j \in 0..(k - 1) : j * step + size < Len(words)
    IN  [i \in 1..(lastw + 1) |->
            JoinWords(SubSeq(words, (i - 1) * step + 1,
                             Min((i - 1) * step + size, Len(words))))]

\* C18: with overlap_words below chunk_size_words the chunks are the windows, one
\* chunk per window.
C18_OneChunkPerWindow ==
    (ChunkerDone /\ fcall.overlap_words < fcall.chunk_size_words
        /\ WordsOf(fcall.text) # <<>>)
    => fcall.result = Windows(WordsOf(fcall.text), fcall.chunk_size_words,
                              fcall.overlap_words)

\* ---------------------------------------------------------------- tagger calls

\* the pieces the texts given to the tagger are made of: "SEO", "Call To", " Action",
\* "Heading", "ct", "a", " ", "Voice"
TaggerFragments ==
    { <<"S","E","O">>,
      <<"C","a","l","l"," ","T","o">>,
      <<" ","A","c","t","i","o","n">>,
      <<"H","e","a","d","i","n","g">>,
      <<"c","t">>,
      <<"a">>,
      <<" ">>,
      <<"V","o","i","c","e">> }

TaggerTexts ==
    {ConcatRange(pieces, 1, Len(pieces)) :
        pieces \in UNION {[1..n -> TaggerFragments] : n \in 0..MaxFragments}}

\* a call of _guess_tags_from_text that has not run yet
InitTagger ==
    /\ fcall \in {[fn |-> "_guess_tags_from_text", text |-> text, done |-> FALSE,
                   result |-> <<>>] : text \in TaggerTexts}
    /\ faiss = FALSE /\ store = RuleStoreInit /\ disk = NoFiles
    /\ last = Call("init", "", Outcome(RuleStoreInit, "", <<>>, 0), 0, <<>>, NoGatewayCall, FALSE)
    /\ builder = BuilderIdle /\ reader = ReaderIdle /\ page = NoPage

\* _guess_tags_from_text runs
TaggerCall ==
    /\ fcall.fn = "_guess_tags_from_text" /\ ~fcall.done
    /\ fcall' = [fcall EXCEPT !.done = TRUE, !.result = _guess_tags_from_text(fcall.text)]
    /\ UNCHANGED <<faiss, store, disk, last, threadVars, page>>

NextTagger == TaggerCall

SpecTagger == InitTagger /\ [][NextTagger]_vars

\* the keyword stands in the text, character by character, from some position on
Occurs(keyword, text) ==
    \E i \in 0..(Len(text) - Len(keyword)) :
        \A k \in 1..Len(keyword) : text[i + k] = keyword[k]

\* the keywords of a category tag
KeywordsOf(tag) ==
    CASE tag = "seo" -> KwSeo
      [] tag = "structure" -> KwStructure
      [] tag = "cta" -> KwCta
      [] tag = "tone" -> KwTone

\* a finished tagger call
TaggerDone == fcall.fn = "_guess_tags_from_text" /\ fcall.done

\* C19: the tags of a text are not empty; a category tag is among them exactly when
\* one of its keywords occurs in the lower-cased text; they are exactly "general"
\* when no category matches, and "general" comes with no category tag.
C19_TagsFollowKeywords ==
    TaggerDone
    => LET tags    == SetOf(fcall.result)
           lowered == Lower(fcall.text)
           matches(tag) == \E keyword \in KeywordsOf(tag) : Occurs(keyword, lowered)
           categories == {"seo", "structure", "cta", "tone"}
       IN  /\ tags # {}
           /\ tags \subseteq categories \cup {"general"}
           /\ \A tag \in categories : tag \in tags <=> matches(tag)
           /\ (\A tag \in categories : ~matches(tag)) => tags = {"general"}
           /\ "general" \in tags => tags = {"general"}

\* a text whose keywords are in upper case and split over its fragments, tagged with
\* two categories
C19_Witness ==
    /\ TaggerDone /\ fcall.result = <<"cta", "structure">>
    /\ Occurs(<<"C","a","l","l"," ","T","o"," ","A","c","t","i","o","n">>, fcall.text)

\* ---------------------------------------------------------------- formatter calls

\* the sections of the static rules given to the formatter, in dict order: "seo",
\* "tone rules"
FormatterSections == << <<"s","e","o">>,
                        <<"t","o","n","e"," ","r","u","l","e","s">> >>

\* the rules the sections are made of: "Be kind", " be KIND ", "  ", "Cite"
FormatterRules ==
    { <<"B","e"," ","k","i","n","d">>,
      <<" ","b","e"," ","K","I","N","D"," ">>,
      <<" "," ">>,
      <<"C","i","t","e">> }

FormatterRuleLists == UNION {[1..n -> FormatterRules] : n \in 0..MaxRules}

\* the dicts given to the formatter: the empty one, those of the first section with a
\* list of rules, and those with a second section of no rule or one
FormatterDicts ==
    {<<>>}
    \cup {<<[section |-> FormatterSections[1], rules |-> rules]>> :
              rules \in FormatterRuleLists}
    \cup {<<[section |-> FormatterSections[1], rules |-> rules],
            [section |-> FormatterSections[2], rules |-> more]>> :
              rules \in FormatterRuleLists,
              more \in {<<>>} \cup {<<rule>> : rule \in FormatterRules}}

\* a call of _format_rule_block that has not run yet
InitFormatter ==
    /\ fcall \in {[fn |-> "_format_rule_block", static_rules |-> static_rules,
                   done |-> FALSE, result |-> <<>>] : static_rules \in FormatterDicts}
    /\ faiss = FALSE /\ store = RuleStoreInit /\ disk = NoFiles
    /\ last = Call("init", "", Outcome(RuleStoreInit, "", <<>>, 0), 0, <<>>, NoGatewayCall, FALSE)
    /\ builder = BuilderIdle /\ reader = ReaderIdle /\ page = NoPage

\* _format_rule_block runs
FormatterCall ==
    /\ fcall.fn = "_format_rule_block" /\ ~fcall.done
    /\ fcall' = [fcall EXCEPT !.done = TRUE,
                              !.result = _format_rule_block(fcall.static_rules)]
    /\ UNCHANGED <<faiss, store, disk, last, threadVars, page>>

NextFormatter == FormatterCall

SpecFormatter == InitFormatter /\ [][NextFormatter]_vars

\* a finished formatter call
FormatterDone == fcall.fn = "_format_rule_block" /\ fcall.done

\* the rule a "- rule" line shows
RuleOfLine(line) == SubSeq(line, 3, Len(line))

\* the lines render the rules: every line shows a rule that is not blank, stripped and
\* in the casing of its first occurrence in the list; no two lines show the same rule
\* under lower-casing; every rule that is not blank is shown
RendersOnce(lines, rules) ==
    /\ \A a \in 1..Len(lines) :
          /\ SubSeq(lines[a], 1, 2) = <<"-", " ">>
          /\ RuleOfLine(lines[a]) # <<>>
          /\ \E k \in 1..Len(rules) :
                /\ Strip(rules[k]) = RuleOfLine(lines[a])
                /\ \A j \in 1..(k - 1) :
                      Lower(Strip(rules[j])) # Lower(RuleOfLine(lines[a]))
    /\ \A a, b \in 1..Len(lines) :
          a # b => Lower(RuleOfLine(lines[a])) # Lower(RuleOfLine(lines[b]))
    /\ \A k \in 1..Len(rules) :
          Strip(rules[k]) # <<>>
              => \E a \in 1..Len(lines) :
                    Lower(RuleOfLine(lines[a])) = Lower(Strip(rules[k]))

\* C20: the output holds, in order, one section for every category that has a rule
\* which is not blank, and none for the other categories; a section shows each rule
\* of its category once under case-insensitive comparison of the stripped rules, in
\* the casing of the first occurrence, and shows no blank rule.
C20_RulesRenderedOnce ==
    FormatterDone
    => LET static_rules == fcall.static_rules
           sections     == fcall.result.sections
           survives(i)  == \E k \in 1..Len(static_rules[i].rules) :
                              Strip(static_rules[i].rules[k]) # <<>>
           kept         == SelectSeq([i \in 1..Len(static_rules) |-> i], survives)
       IN  /\ Len(sections) = Len(kept)
           /\ \A n \in 1..Len(kept) :
                 /\ Lower(sections[n].title) = Lower(static_rules[kept[n]].section)
                 /\ RendersOnce(sections[n].lines, static_rules[kept[n]].rules)

\* a category with the same rule in two casings and a blank rule, rendered once, and a
\* second category of blank rules only, left out
C20_Witness ==
    /\ FormatterDone /\ Len(fcall.static_rules) = 2
    /\ fcall.static_rules[1].rules
          = << <<" ","b","e"," ","K","I","N","D"," ">>, <<" "," ">>,
               <<"B","e"," ","k","i","n","d">> >>
    /\ fcall.static_rules[2].rules = << <<" "," ">> >>
    /\ Len(fcall.result.sections) = 1
    /\ fcall.result.sections[1].lines = << <<"-"," ","b","e"," ","K","I","N","D">> >>

\* ---------------------------------------------------------------- dynamic rules calls

\* the chunks given to the formatter of the dynamic rules: "Use x" with a score,
\* " use X " without one, a chunk of blank text, "Cite" without tags
DynamicChunks ==
    { RuleChunk(<<"U","s","e"," ","x">>, <<>>, [tags |-> <<"seo">>, score |-> 90]),
      RuleChunk(<<" ","u","s","e"," ","X"," ">>, <<>>, [tags |-> <<"cta", "tone">>]),
      RuleChunk(<<" "," ">>, <<>>, [tags |-> <<"general">>]),
      RuleChunk(<<"C","i","t","e">>, <<>>, [score |-> 50]) }

DynamicChunkLists == UNION {[1..n -> DynamicChunks] : n \in 0..MaxChunks}

\* a call of _format_dynamic_rules that has not run yet
InitDynamic ==
    /\ fcall \in {[fn |-> "_format_dynamic_rules", chunks |-> chunks, done |-> FALSE,
                   result |-> <<>>] : chunks \in DynamicChunkLists}
    /\ faiss = FALSE /\ store = RuleStoreInit /\ disk = NoFiles
    /\ last = Call("init", "", Outcome(RuleStoreInit, "", <<>>, 0), 0, <<>>, NoGatewayCall, FALSE)
    /\ builder = BuilderIdle /\ reader = ReaderIdle /\ page = NoPage

\* _format_dynamic_rules runs
DynamicCall ==
    /\ fcall.fn = "_format_dynamic_rules" /\ ~fcall.done
    /\ fcall' = [fcall EXCEPT !.done = TRUE, !.result = _format_dynamic_rules(fcall.chunks)]
    /\ UNCHANGED <<faiss, store, disk, last, threadVars, page>>

NextDynamic == DynamicCall

SpecDynamic == InitDynamic /\ [][NextDynamic]_vars

\* a finished call of the formatter of the dynamic rules
DynamicDone == fcall.fn = "_format_dynamic_rules" /\ fcall.done

\* the text of a chunk as the formatter compares it: trimmed and lower-cased
ChunkKey(chunk) == Lower(Strip(chunk.text))

\* the positions of the chunks that are the first of their text, blank texts left out
FirstOccurrences(chunks) ==
    SelectSeq([i \in 1..Len(chunks) |-> i],
              LAMBDA i : /\ ChunkKey(chunks[i]) # <<>>
                         /\ \A j \in 1..(i - 1) : ChunkKey(chunks[j]) # ChunkKey(chunks[i]))

\* C21: the rendered snippets are, in input order, the first chunks of every distinct
\* text (compared trimmed and lower-cased), each once, numbered 1..n.
C21_DynamicRenderedOnce ==
    DynamicDone
    => LET chunks   == fcall.chunks
           snippets == fcall.result.snippets
           firsts   == FirstOccurrences(chunks)
       IN  /\ Len(snippets) = Cardinality({ChunkKey(chunks[i]) : i \in 1..Len(chunks)}
                                          \ {<<>>})
           /\ Len(snippets) = Len(firsts)
           /\ \A k \in 1..Len(snippets) :
                 /\ snippets[k].idx = k
                 /\ snippets[k].text = Strip(chunks[firsts[k]].text)
           /\ \A k, m \in 1..Len(snippets) :
                 k # m => Lower(snippets[k].text) # Lower(snippets[m].text)

\* the same text in two casings around a blank chunk and another text: two snippets
C21_Witness ==
    /\ DynamicDone /\ Len(fcall.chunks) = 3
    /\ fcall.chunks[1].text = <<" ","u","s","e"," ","X"," ">>
    /\ fcall.chunks[2].text = <<"U","s","e"," ","x">>
    /\ fcall.chunks[3].text = <<"C","i","t","e">>
    /\ Len(fcall.result.snippets) = 2
    /\ fcall.result.snippets[2].text = <<"C","i","t","e">>

\* C22: the output is the fallback sentence exactly when no chunk of the input has a
\* text that is not blank; otherwise it holds at least one snippet.
C22_FallbackIffNoText ==
    DynamicDone
    => LET chunks == fcall.chunks
           noText == \A i \in 1..Len(chunks) : Strip(chunks[i].text) = <<>>
       IN  /\ fcall.result.text = NoDynamicRules <=> noText
           /\ noText => fcall.result.snippets = <<>>
           /\ ~noText => Len(fcall.result.snippets) >= 1

\* a list of blank chunks only, answered with the fallback sentence
C22_Witness ==
    /\ DynamicDone /\ Len(fcall.chunks) >= 2
    /\ \A i \in 1..Len(fcall.chunks) : Strip(fcall.chunks[i].text) = <<>>
    /\ fcall.result.text = NoDynamicRules

\* ---------------------------------------------------------------- message sanitizer

\* a dict value that is a str, and one that is not (None)
Str(text) == [str |-> TRUE, text |-> text]
PyNone == [str |-> FALSE]

\* str.splitlines() for the line break "\n": the pieces between the breaks, without
\* the empty piece after a final break (and none at all for the empty text)
SplitLines(text) ==
    LET nl     == SelectSeq([i \in 1..Len(text) |-> i], LAMBDA i : text[i] = "\n")
        b      == <<0>> \o nl \o <<Len(text) + 1>>
        pieces == [k \in 1..(Len(nl) + 1) |-> SubSeq(text, b[k] + 1, b[k + 1] - 1)]
    IN  IF pieces[Len(pieces)] = <<>> THEN SubSeq(pieces, 1, Len(pieces) - 1) ELSE pieces

\* "\n".join(lines)
RECURSIVE JoinLines(_)
JoinLines(lines) ==
    IF lines = <<>> THEN <<>>
    ELSE IF Len(lines) = 1 THEN lines[1]
    ELSE lines[1] \o <<"\n">> \o JoinLines(Tail(lines))

\* _dedupe_prompt_lines, lines 17-23: the lines kept and the set seen after them
RECURSIVE DedupeLines(_, _, _, _)
DedupeLines(lines, i, seen, deduped) ==
    IF i > Len(lines) THEN [deduped |-> deduped, seen |-> seen]
    ELSE LET normalized == Strip(lines[i])
         IN  IF normalized # <<>> /\ normalized \in seen
             THEN DedupeLines(lines, i + 1, seen, deduped)
             ELSE DedupeLines(lines, i + 1,
                              IF normalized # <<>> THEN seen \cup {normalized} ELSE seen,
                              Append(deduped, lines[i]))

\* _dedupe_prompt_lines starting from an empty set of its own at every call
_dedupe_prompt_lines_own_seen(text, seen) ==
    LET r == DedupeLines(SplitLines(text), 1, {}, <<>>)
    IN  [text |-> Strip(JoinLines(r.deduped)), seen |-> seen]

\* _dedupe_prompt_lines(text, seen): the text it returns and the set seen, which it
\* extends in place
_dedupe_prompt_lines(text, seen) ==
    LET r == DedupeLines(SplitLines(text), 1, seen, <<>>)
    IN  [text |-> Strip(JoinLines(r.deduped)), seen |-> r.seen]

\* message.get("content")
GetContent(message) == IF "content" \in DOMAIN message THEN message.content ELSE PyNone

\* {**message, "content": content}
WithContent(message, content) ==
    [key \in (DOMAIN message) \cup {"content"} |->
        IF key = "content" THEN content ELSE message[key]]

\* the sanitizer writing the new content into the message it was given
RECURSIVE SanitizeLoop_in_place(_, _, _, _, _)
SanitizeLoop_in_place(messages, i, seen, sanitized, input) ==
    IF i > Len(messages) THEN [messages |-> input, sanitized |-> sanitized]
    ELSE LET content == GetContent(messages[i])
             r       == IF content.str THEN _dedupe_prompt_lines(content.text, seen)
                        ELSE [text |-> <<>>, seen |-> seen]
             updated == WithContent(messages[i], IF content.str THEN Str(r.text) ELSE content)
         IN  SanitizeLoop_in_place(messages, i + 1, r.seen, Append(sanitized, updated),
                                   [input EXCEPT ![i] = updated])

\* _sanitize_messages, lines 33-37: the loop over the messages; input stands for the
\* caller's list and dicts, which the loop only reads
RECURSIVE SanitizeLoop(_, _, _, _, _)
SanitizeLoop(messages, i, seen, sanitized, input) ==
    IF i > Len(messages) THEN [messages |-> input, sanitized |-> sanitized]
    ELSE LET content == GetContent(messages[i])
             r       == IF content.str THEN _dedupe_prompt_lines(content.text, seen)
                        ELSE [text |-> <<>>, seen |-> seen]
         IN  SanitizeLoop(messages, i + 1, r.seen,
                          Append(sanitized,
                                 WithContent(messages[i],
                                             IF content.str THEN Str(r.text) ELSE content)),
                          input)

\* _sanitize_messages: the list it returns, and the caller's messages after the call
_sanitize_messages(messages) == SanitizeLoop(messages, 1, {}, <<>>, messages)

\* the lines the contents are made of: "A", " A ", "B", and the empty line
MessageLines ==
    { <<"A">>,
      <<" ","A"," ">>,
      <<"B">>, <<>> }

\* the contents of the first message: up to MaxLines lines joined by "\n"
FirstContents ==
    {JoinLines(lines) : lines \in UNION {[1..n -> MessageLines] : n \in 0..MaxLines}}
\* the contents of the second message: one or two lines
SecondContents ==
    {JoinLines(lines) : lines \in UNION {[1..n -> MessageLines] : n \in 1..2}}

\* the message lists given to the sanitizer: a system message, then no message, a
\* user message with a name, a message without content, or one whose content is None
MessageLists ==
    LET firsts == {[role |-> "system", content |-> Str(c)] : c \in FirstContents}
        seconds == {[role |-> "user", name |-> "op", content |-> Str(c)] :
                       c \in SecondContents}
                   \cup {[role |-> "user"], [role |-> "tool", content |-> PyNone]}
    IN  {<<m>> : m \in firsts} \cup {<<m, n>> : m \in firsts, n \in seconds}

\* a call of _sanitize_messages that has not run yet
InitSanitizer ==
    /\ fcall \in {[fn |-> "_sanitize_messages", given |-> messages, messages |-> messages,
                   done |-> FALSE, result |-> <<>>] : messages \in MessageLists}
    /\ faiss = FALSE /\ store = RuleStoreInit /\ disk = NoFiles
    /\ last = Call("init", "", Outcome(RuleStoreInit, "", <<>>, 0), 0, <<>>, NoGatewayCall, FALSE)
    /\ builder = BuilderIdle /\ reader = ReaderIdle /\ page = NoPage

\* _sanitize_messages runs: given is the argument as it was, messages the caller's
\* list after the call
SanitizerCall ==
    /\ fcall.fn = "_sanitize_messages" /\ ~fcall.done
    /\ LET out == _sanitize_messages(fcall.messages)
       IN  fcall' = [fcall EXCEPT !.done = TRUE, !.messages = out.messages,
                                  !.result = out.sanitized]
    /\ UNCHANGED <<faiss, store, disk, last, threadVars, page>>

NextSanitizer == SanitizerCall

SpecSanitizer == InitSanitizer /\ [][NextSanitizer]_vars

\* a finished sanitizer call
SanitizerDone == fcall.fn = "_sanitize_messages" /\ fcall.done

\* the lines of the content of message k of a list, none when the content is no str
LinesOf(messages, k) ==
    IF GetContent(messages[k]).str THEN SplitLines(GetContent(messages[k]).text) ELSE <<>>

\* the positions of the lines of a list of lines that are not blank
TextPositions(lines) ==
    SelectSeq([i \in 1..Len(lines) |-> i], LAMBDA i : Strip(lines[i]) # <<>>)

\* line i of message k is not blank and no earlier line of the messages, trimmed,
\* equals it
IsFirstLine(messages, k, i) ==
    LET line == Strip(LinesOf(messages, k)[i])
    IN  /\ line # <<>>
        /\ \A j \in 1..(i - 1) : Strip(LinesOf(messages, k)[j]) # line
        /\ \A m \in 1..(k - 1) : \A j \in 1..Len(LinesOf(messages, m)) :
              Strip(LinesOf(messages, m)[j]) # line

\* the first occurrences among the lines of message k, trimmed, in their order
FirstLines(messages, k) ==
    LET lines == LinesOf(messages, k)
        at    == SelectSeq([i \in 1..Len(lines) |-> i],
                           LAMBDA i : IsFirstLine(messages, k, i))
    IN  [n \in 1..Len(at) |-> Strip(lines[at[n]])]

\* the lines of a list that are not blank, trimmed, in their order
TextLines(lines) ==
    LET at == TextPositions(lines)
    IN  [n \in 1..Len(at) |-> Strip(lines[at[n]])]

\* the number of blank lines of a list of lines between positions lo and hi
BlankBetween(lines, lo, hi) ==
    Cardinality({i \in (lo + 1)..(hi - 1) : Strip(lines[i]) = <<>>})

\* the number of blank lines of a list of lines between the first and the last line
\* satisfying keep
BlankInside(lines, keep(_)) ==
    LET at == SelectSeq([i \in 1..Len(lines) |-> i], keep)
    IN  IF at = <<>> THEN 0 ELSE BlankBetween(lines, at[1], at[Len(at)])

\* no line with text occurs twice in the sanitized contents, and every message keeps
\* the first occurrences of its lines, in their order
NoDuplicateLines ==
    LET given == fcall.given
        out   == fcall.result
    IN  /\ Len(out) = Len(given)
        /\ \A k \in 1..Len(out) :
              /\ GetContent(out[k]).str = GetContent(given[k]).str
              /\ TextLines(LinesOf(out, k)) = FirstLines(given, k)
              /\ \A i \in 1..Len(LinesOf(out, k)) :
                    Strip(LinesOf(out, k)[i]) # <<>> => IsFirstLine(out, k, i)

\* C23 as stated: no line with text occurs twice in the sanitized contents, every
\* first occurrence stays in its message and in order, and the blank lines inside a
\* content, between its first and its last line with text, are all kept.
C23_DuplicateLinesRemoved ==
    SanitizerDone
    => /\ NoDuplicateLines
       /\ \A k \in 1..Len(fcall.given) :
             LET lines == LinesOf(fcall.given, k)
                 kept  == LinesOf(fcall.result, k)
             IN  BlankInside(kept, LAMBDA i : Strip(kept[i]) # <<>>)
                    = BlankInside(lines, LAMBDA i : Strip(lines[i]) # <<>>)

\* C23 amended: the same, the blank lines kept being those between the first and the
\* last line of the content that stay.
C23_DuplicateLinesRemovedInnerBlanks ==
    SanitizerDone
    => /\ NoDuplicateLines
       /\ \A k \in 1..Len(fcall.given) :
             LET lines == LinesOf(fcall.given, k)
                 kept  == LinesOf(fcall.result, k)
             IN  /\ BlankInside(kept, LAMBDA i : Strip(kept[i]) # <<>>)
                       = BlankInside(lines, LAMBDA i : IsFirstLine(fcall.given, k, i))
                 /\ kept # <<>> => /\ Strip(kept[1]) # <<>>
                                   /\ Strip(kept[Len(kept)]) # <<>>

\* a line repeated inside the first message and again in the second, with a blank
\* line that stays between two kept lines
C23_Witness ==
    /\ SanitizerDone /\ Len(fcall.given) = 2
    /\ GetContent(fcall.given[1]) = Str(<<"A","\n","\n","B">>)
    /\ GetContent(fcall.given[2]) = Str(<<" ","A"," ","\n","B">>)
    /\ GetContent(fcall.result[1]) = Str(<<"A","\n","\n","B">>)
    /\ GetContent(fcall.result[2]) = Str(<<>>)

\* C30: after the call the caller's messages are what they were, with their keys and
\* their contents, and every sanitized message holds the fields of its message other
\* than content unchanged, and a content.
C30_InputUntouched ==
    SanitizerDone
    => /\ fcall.messages = fcall.given
       /\ Len(fcall.result) = Len(fcall.given)
       /\ \A k \in 1..Len(fcall.given) :
             /\ DOMAIN fcall.result[k] = (DOMAIN fcall.given[k]) \cup {"content"}
             /\ \A key \in (DOMAIN fcall.given[k]) \ {"content"} :
                   fcall.result[k][key] = fcall.given[k][key]

\* a first message that loses a duplicate line and a second one with a name field
C30_Witness ==
    /\ SanitizerDone /\ Len(fcall.given) = 2
    /\ GetContent(fcall.given[1]).text = <<"A","\n","A">>
    /\ GetContent(fcall.result[1]).text = <<"A">>
    /\ "name" \in DOMAIN fcall.result[2]

\* ---------------------------------------------------------------- utils.safe_json_loads

\* the whitespace json.loads skips between tokens
JsonWhitespace == {" ", "\t", "\n", "\r"}

JsonDigits == <<"0", "1", "2", "3", "4", "5", "6", "7", "8", "9">>

\* the value of one digit
DigitValue(c) == (CHOOSE d \in 1..10 : JsonDigits[d] = c) - 1

IsDigit(c) == \E d \in 1..10 : JsonDigits[d] = c

\* a parser step that failed, and one that read a value and stopped before position next
JsonFail == [ok |-> FALSE]
JsonRead(value, next) == [ok |-> TRUE, value |-> value, next |-> next]

\* the values of the parser: int, str and dict (keys to values)
JsonNum(n) == [num |-> n]
JsonStr(chars) == [str |-> chars]
JsonObj(members) == [obj |-> members]
EmptyMembers == [key \in {} |-> JsonFail]

\* the first position from i on that holds no whitespace, Len(s) + 1 when there is none
RECURSIVE SkipWs(_, _)
SkipWs(s, i) ==
    IF i <= Len(s) /\ s[i] \in JsonWhitespace THEN SkipWs(s, i + 1) ELSE i

\* the string that opens with the quote at position i: it ends with the next quote
\* and holds no control character
ParseString(s, i) ==
    LET closes == {j \in (i + 1)..Len(s) : s[j] = "\""}
    IN  IF closes = {} THEN JsonFail
        ELSE LET j == CHOOSE c \in closes : \A d \in closes : c <= d
                 chars == SubSeq(s, i + 1, j - 1)
             IN  IF \E k \in 1..Len(chars) : chars[k] \in {"\n", "\t", "\r"} THEN JsonFail
                 ELSE JsonRead(JsonStr(chars), j + 1)

\* the digits from position i on, read into n
RECURSIVE ParseDigits(_, _, _)
ParseDigits(s, i, n) ==
    IF i <= Len(s) /\ IsDigit(s[i]) THEN ParseDigits(s, i + 1, 10 * n + DigitValue(s[i]))
    ELSE JsonRead(JsonNum(n), i)

\* the integer that starts with the digit at position i: a leading 0 stands alone
ParseNumber(s, i) ==
    IF s[i] = "0" THEN JsonRead(JsonNum(0), i + 1) ELSE ParseDigits(s, i, 0)

RECURSIVE ParseValue(_, _)
RECURSIVE ParseMembers(_, _, _)

\* the members of an object from the key expected at position i on; a key that
\* occurs again replaces the value read before
ParseMembers(s, i, members) ==
    IF i > Len(s) \/ s[i] # "\"" THEN JsonFail
    ELSE LET key == ParseString(s, i)
         IN  IF ~key.ok THEN JsonFail
             ELSE LET colon == SkipWs(s, key.next)
                  IN  IF colon > Len(s) \/ s[colon] # ":" THEN JsonFail
                      ELSE LET value == ParseValue(s, SkipWs(s, colon + 1))
                           IN  IF ~value.ok THEN JsonFail
                               ELSE LET name == key.value.str
                                        added == [k \in (DOMAIN members) \cup {name} |->
                                                     IF k = name THEN value.value ELSE members[k]]
                                        after == SkipWs(s, value.next)
                                    IN  IF after > Len(s) THEN JsonFail
                                        ELSE IF s[after] = "}" THEN JsonRead(JsonObj(added), after + 1)
                                        ELSE IF s[after] = "," THEN ParseMembers(s, SkipWs(s, after + 1), added)
                                        ELSE JsonFail

\* the value that starts at position i: an object, a string or an integer
ParseValue(s, i) ==
    IF i > Len(s) THEN JsonFail
    ELSE IF s[i] = "\"" THEN ParseString(s, i)
    ELSE IF IsDigit(s[i]) THEN ParseNumber(s, i)
    ELSE IF s[i] = "{"
         THEN LET after == SkipWs(s, i + 1)
              IN  IF after <= Len(s) /\ s[after] = "}" THEN JsonRead(JsonObj(EmptyMembers), after + 1)
                  ELSE ParseMembers(s, after, EmptyMembers)
    ELSE JsonFail

\* what a call returns, and the JSONDecodeError it raises: the error holds the
\* document that did not parse
Returned(value) == [raised |-> FALSE, value |-> value]
JSONDecodeError(doc) == [raised |-> TRUE, error |-> [doc |-> doc]]

\* json.loads(s): one value between whitespace and nothing after it
json_loads(s) ==
    LET value == ParseValue(s, SkipWs(s, 1))
    IN  IF ~value.ok THEN JSONDecodeError(s)
        ELSE IF SkipWs(s, value.next) <= Len(s) THEN JSONDecodeError(s)
        ELSE Returned(value.value)

\* str.find and str.rfind of one character, as positions from 1 on; 0 when it is absent
Find(s, c) ==
    LET at == {i \in 1..Len(s) : s[i] = c}
    IN  IF at = {} THEN 0 ELSE CHOOSE i \in at : \A j \in at : i <= j
RFind(s, c) ==
    LET at == {i \in 1..Len(s) : s[i] = c}
    IN  IF at = {} THEN 0 ELSE CHOOSE i \in at : \A j \in at : i >= j

\* safe_json_loads raising the error of the parse of the extracted text
safe_json_loads_inner_error(raw) ==
    LET whole == json_loads(raw)
        start == Find(raw, "{")
        end == RFind(raw, "}")
    IN  IF ~whole.raised THEN whole
        ELSE IF start # 0 /\ end # 0 /\ end > start
             THEN json_loads(SubSeq(raw, start, end))
             ELSE whole

\* safe_json_loads(raw): the bare raise at the end of the handler raises the error
\* of the first parse again
safe_json_loads(raw) ==
    LET whole == json_loads(raw)
        start == Find(raw, "{")
        end == RFind(raw, "}")
    IN  IF ~whole.raised THEN whole
        ELSE IF start # 0 /\ end # 0 /\ end > start
             THEN LET inner == json_loads(SubSeq(raw, start, end))
                  IN  IF ~inner.raised THEN inner ELSE whole
             ELSE whole

\* the texts the calls are made with: a text in front, a text that may be JSON and
\* a text behind
JsonBefore ==
    { <<>>, <<"x", " ">>, <<"{", " ">>, <<"}", " ">>, <<" ">> }
JsonCore ==
    { <<"{", "}">>,
      <<"{", "\"", "a", "\"", ":", "1", "}">>,
      <<"{", "\"", "a", "\"", ":", " ", "{", "\"", "b", "\"", ":", "\"", "x", "\"", "}", "}">>,
      <<"{", "\"", "a", "\"", ":", "1", ",", "\"", "a", "\"", ":", "2", "0", "}">>,
      <<"{", "\"", "a", "\"", ":", "1", ",", "}">>,
      <<"{", "\"", "a", "\"", ":", "0", "1", "}">>,
      <<"{", "\"", "a", "\"">>,
      <<"\"", "a", "\"">>,
      <<"1", "2">>,
      <<>> }
JsonAfter ==
    { <<>>, <<" ", "x">>, <<" ", "}">>, <<" ", "{">>, <<"{", "}">>, <<"\n">> }
JsonTexts == {before \o core \o after : before \in JsonBefore, core \in JsonCore, after \in JsonAfter}

\* a call of safe_json_loads that has not run yet
InitJson ==
    /\ fcall \in {[fn |-> "safe_json_loads", raw |-> raw, done |-> FALSE,
                   result |-> Returned(JsonNum(0))] : raw \in JsonTexts}
    /\ faiss = FALSE /\ store = RuleStoreInit /\ disk = NoFiles
    /\ last = Call("init", "", Outcome(RuleStoreInit, "", <<>>, 0), 0, <<>>, NoGatewayCall, FALSE)
    /\ builder = BuilderIdle /\ reader = ReaderIdle /\ page = NoPage

JsonCall ==
    /\ fcall.fn = "safe_json_loads" /\ ~fcall.done
    /\ fcall' = [fcall EXCEPT !.done = TRUE, !.result = safe_json_loads(fcall.raw)]
    /\ UNCHANGED <<faiss, store, disk, last, threadVars, page>>

NextJson == JsonCall

SpecJson == InitJson /\ [][NextJson]_vars

\* a finished call of safe_json_loads
JsonDone == fcall.fn = "safe_json_loads" /\ fcall.done

\* the text from the first "{" to the last "}" of a text, empty when there is none
BraceText(raw) ==
    LET opens == {i \in 1..Len(raw) : raw[i] = "{"}
        closes == {i \in 1..Len(raw) : raw[i] = "}"}
    IN  IF opens = {} \/ closes = {} THEN <<>>
        ELSE SubSeq(raw, CHOOSE i \in opens : \A j \in opens : i <= j,
                         CHOOSE i \in closes : \A j \in closes : i >= j)

\* C24: safe_json_loads returns the parse of the whole text when it is JSON;
\* otherwise the parse of the text from the first "{" to the last "}" when that is
\* JSON; otherwise it raises the decode error of the parse of the whole text.
C24_SafeJsonLoads ==
    JsonDone
    => LET whole == json_loads(fcall.raw)
           braces == json_loads(BraceText(fcall.raw))
       IN  /\ ~whole.raised => fcall.result = whole
           /\ whole.raised /\ ~braces.raised
                => fcall.result = braces /\ "obj" \in DOMAIN fcall.result.value
           /\ whole.raised /\ braces.raised => fcall.result = JSONDecodeError(fcall.raw)

\* a text with noise around an object, and a text whose braces hold no JSON either
C24_Witness ==
    /\ JsonDone
    /\ \/ /\ fcall.raw = <<"x", " ", "{", "\"", "a", "\"", ":", "1", "}", " ", "x">>
          /\ fcall.result = Returned(JsonObj([k \in {<<"a">>} |-> JsonNum(1)]))
       \/ /\ fcall.raw = <<"{", " ", "{", "}", " ", "x">>
          /\ fcall.result.raised

\* ---------------------------------------------------------------- ties in RuleStore.query

\* the order of the stored chunks by descending cosine similarity to q in which
\* chunks of equal similarity stand in insertion order
StableRanking(s, q) ==
    LET n == Len(s.chunks)
        score(i) == Cosine(s.chunks[i].embedding, q)
        rank(i) == 1 + Cardinality({j \in 1..n : score(j) > score(i)})
                     + Cardinality({j \in 1..(i - 1) : score(j) = score(i)})
    IN  [r \in 1..n |-> CHOOSE i \in 1..n : rank(i) = r]

\* two stored chunks have the same similarity to q
HasTie(s, q) ==
    \E i, j \in 1..Len(s.chunks) :
        i # j /\ Cosine(s.chunks[i].embedding, q) = Cosine(s.chunks[j].embedding, q)

\* C25: when stored chunks have the same similarity to the query, query raises
\* nothing and returns the chunks in the order of descending similarity with equal
\* similarities in insertion order, cut to top_k (the earlier-inserted of a tie
\* are kept) and then filtered by tag.
C25_TiesByInsertionOrder ==
    (last.op = "query" /\ is_ready(store) /\ GatewayAnswered(last)
        /\ HasTie(store, last.gateway.data[1]))
    => /\ last.raised = ""
       /\ LET q == last.gateway.data[1]
              kept == SelectSeq(Take(StableRanking(store, q), last.top_k),
                                LAMBDA i : last.required_tags = <<>>
                                           \/ CarriesTag(store.chunks[i], last.required_tags))
          IN  /\ Len(last.result) = Len(kept)
              /\ \A i \in 1..Len(kept) :
                     IsScoredCopy(last.result[i], store.chunks[kept[i]], q)

\* ---------------------------------------------------------------- the window loop, step by step

\* the sizes and overlaps the loop is run with; no check of the code keeps
\* chunk_size_words above 0
WindowSizes == 0..MaxChunkSize
WindowOverlaps == 0..MaxOverlap

\* line 67: the cleaned text of every text the loop is run with
CleanedTexts == [text \in ChunkerTexts |-> Strip(CollapseWhitespace(text))]

\* a call of chunk_golden_rules at its first line
InitWindows ==
    /\ fcall \in {[fn |-> "window_loop", pc |-> "enter", text |-> text,
                   chunk_size_words |-> size, overlap_words |-> overlap,
                   words |-> <<>>, start |-> 0, chunks |-> <<>>, result |-> <<>>] :
                     text \in ChunkerTexts, size \in WindowSizes, overlap \in WindowOverlaps}
    /\ faiss = FALSE /\ store = RuleStoreInit /\ disk = NoFiles
    /\ last = Call("init", "", Outcome(RuleStoreInit, "", <<>>, 0), 0, <<>>, NoGatewayCall, FALSE)
    /\ builder = BuilderIdle /\ reader = ReaderIdle /\ page = NoPage

\* lines 67-73: the text is cleaned; an empty text returns at once, any other is
\* split into words and the loop begins at start = 0
WindowsEnter ==
    /\ fcall.fn = "window_loop" /\ fcall.pc = "enter"
    /\ LET cleaned == CleanedTexts[fcall.text]
       IN  fcall' = IF cleaned = <<>>
                    THEN [fcall EXCEPT !.pc = "done", !.result = <<>>]
                    ELSE [fcall EXCEPT !.pc = "loop", !.words = SplitOnSpace(cleaned),
                                       !.start = 0, !.chunks = <<>>]
    /\ UNCHANGED <<faiss, store, disk, last, threadVars, page>>

\* line 74: the test of the while loop; when it fails the chunks are de-duplicated
\* and returned (lines 84-90)
WindowsTest ==
    /\ fcall.fn = "window_loop" /\ fcall.pc = "loop"
    /\ fcall' = IF fcall.start < Len(fcall.words)
                THEN [fcall EXCEPT !.pc = "body"]
                ELSE [fcall EXCEPT !.pc = "done",
                                   !.result = UniqueChunks(fcall.chunks, 1, <<>>)]
    /\ UNCHANGED <<faiss, store, disk, last, threadVars, page>>

\* lines 75-82: the body of the loop; a window that has reached the last word
\* breaks out of the loop, and the chunks are de-duplicated and returned
WindowsBody ==
    /\ fcall.fn = "window_loop" /\ fcall.pc = "body"
    /\ LET end     == Min(Len(fcall.words), fcall.start + fcall.chunk_size_words)
           chunk   == Strip(JoinWords(SubSeq(fcall.words, fcall.start + 1, end)))
           chunks2 == IF chunk # <<>> THEN Append(fcall.chunks, chunk) ELSE fcall.chunks
       IN  fcall' = IF end = Len(fcall.words)
                    THEN [fcall EXCEPT !.pc = "done", !.chunks = chunks2,
                                       !.result = UniqueChunks(chunks2, 1, <<>>)]
                    ELSE [fcall EXCEPT !.pc = "loop", !.chunks = chunks2,
                                       !.start = NextStart(end, fcall.chunk_size_words,
                                                           fcall.overlap_words)]
    /\ UNCHANGED <<faiss, store, disk, last, threadVars, page>>

NextWindows == WindowsEnter \/ WindowsTest \/ WindowsBody

SpecWindows == InitWindows /\ [][NextWindows]_vars

\* the interpreter keeps running the call: a step that can be taken is taken
SpecWindowsFair == SpecWindows /\ WF_vars(NextWindows)

\* the call runs the loop with overlap_words >= chunk_size_words
InDegenerateLoop ==
    /\ fcall.fn = "window_loop" /\ fcall.pc \in {"loop", "body"}
    /\ fcall.overlap_words >= fcall.chunk_size_words

\* C26: with overlap_words >= chunk_size_words every pass of the loop that goes on
\* moves start forward by exactly chunk_size_words, to a larger value, and the
\* call returns.
C26_DegenerateOverlapTerminates ==
    /\ [][(InDegenerateLoop /\ fcall.pc = "body" /\ fcall'.pc = "loop")
             => /\ fcall'.start = fcall.start + fcall.chunk_size_words
                /\ fcall'.start > fcall.start]_vars
    /\ (InDegenerateLoop ~> (fcall.pc = "done"))

\* the same for the calls with chunk_size_words of at least 1
C26_DegenerateOverlapTerminatesPositiveSize ==
    /\ [][(InDegenerateLoop /\ fcall.chunk_size_words >= 1
              /\ fcall.pc = "body" /\ fcall'.pc = "loop")
             => /\ fcall'.start = fcall.start + fcall.chunk_size_words
                /\ fcall'.start > fcall.start]_vars
    /\ ((InDegenerateLoop /\ fcall.chunk_size_words >= 1) ~> (fcall.pc = "done"))

\* the step-by-step loop returns what chunk_golden_rules returns
WindowsAgreeWithChunker ==
    (fcall.fn = "window_loop" /\ fcall.pc = "done" /\ fcall.chunk_size_words >= 1)
    => fcall.result = chunk_golden_rules(fcall.text, fcall.chunk_size_words, fcall.overlap_words)

\* ---------------------------------------------------------------- formatters fed their own lists

\* static_rules with every list of rules replaced by the list the formatter kept of it
DedupedDict(static_rules) ==
    [i \in 1..Len(static_rules) |->
        [section |-> static_rules[i].section,
         rules   |-> DedupeRules(static_rules[i].rules, 1, {}, <<>>)]]

\* a formatter about to be called with an input, its kept lists to be fed to it again
InitRefeed ==
    /\ fcall \in {[fn |-> "_format_rule_block", given |-> static_rules, pass |-> 0,
                   kept |-> <<>>, first |-> <<>>, again |-> <<>>, second |-> <<>>] :
                     static_rules \in FormatterDicts}
             \cup {[fn |-> "_format_dynamic_rules", given |-> chunks, pass |-> 0,
                    kept |-> <<>>, first |-> <<>>, again |-> <<>>, second |-> <<>>] :
                     chunks \in DynamicChunkLists}
    /\ faiss = FALSE /\ store = RuleStoreInit /\ disk = NoFiles
    /\ last = Call("init", "", Outcome(RuleStoreInit, "", <<>>, 0), 0, <<>>, NoGatewayCall, FALSE)
    /\ builder = BuilderIdle /\ reader = ReaderIdle /\ page = NoPage

\* _format_rule_block runs on the input: kept is what its de-duplication kept
StaticFirstPass ==
    /\ fcall.fn = "_format_rule_block" /\ fcall.pass = 0
    /\ fcall' = [fcall EXCEPT !.pass = 1, !.kept = DedupedDict(fcall.given),
                              !.first = _format_rule_block(fcall.given)]
    /\ UNCHANGED <<faiss, store, disk, last, threadVars, page>>

\* _format_rule_block runs on the kept lists
StaticSecondPass ==
    /\ fcall.fn = "_format_rule_block" /\ fcall.pass = 1
    /\ fcall' = [fcall EXCEPT !.pass = 2, !.again = DedupedDict(fcall.kept),
                              !.second = _format_rule_block(fcall.kept)]
    /\ UNCHANGED <<faiss, store, disk, last, threadVars, page>>

\* _format_dynamic_rules runs on the input: kept is what its de-duplication kept
DynamicFirstPass ==
    /\ fcall.fn = "_format_dynamic_rules" /\ fcall.pass = 0
    /\ fcall' = [fcall EXCEPT !.pass = 1, !.kept = UniqueDynamic(fcall.given, 1, {}, <<>>),
                              !.first = _format_dynamic_rules(fcall.given)]
    /\ UNCHANGED <<faiss, store, disk, last, threadVars, page>>

\* _format_dynamic_rules runs on the kept chunks
DynamicSecondPass ==
    /\ fcall.fn = "_format_dynamic_rules" /\ fcall.pass = 1
    /\ fcall' = [fcall EXCEPT !.pass = 2, !.again = UniqueDynamic(fcall.kept, 1, {}, <<>>),
                              !.second = _format_dynamic_rules(fcall.kept)]
    /\ UNCHANGED <<faiss, store, disk, last, threadVars, page>>

NextRefeed == StaticFirstPass \/ StaticSecondPass \/ DynamicFirstPass \/ DynamicSecondPass

SpecRefeed == InitRefeed /\ [][NextRefeed]_vars

\* both passes of a formatter are done
RefeedDone == fcall.fn \in {"_format_rule_block", "_format_dynamic_rules"} /\ fcall.pass = 2

\* C27: a formatter run on the lists its de-duplication kept keeps all of them and
\* renders the text it rendered from the input.
C27_DedupeIdempotent ==
    RefeedDone
    => /\ fcall.again = fcall.kept
       /\ fcall.second = fcall.first

\* an input that lost a rule in the first pass went through both passes of the static
\* formatter, or one that lost a chunk through both passes of the dynamic formatter
C27_Witness ==
    /\ RefeedDone
    /\ \/ /\ fcall.fn = "_format_rule_block" /\ Len(fcall.given) = 2
          /\ Len(fcall.given[1].rules) = 3 /\ Len(fcall.kept[1].rules) = 2
          /\ Len(fcall.first.sections) = 2
       \/ /\ fcall.fn = "_format_dynamic_rules"
          /\ Len(fcall.given) = 3 /\ Len(fcall.kept) = 2
          /\ Len(fcall.second.snippets) = 2

\* ---------------------------------------------------------------- build_hybrid_prompt calls

\* the static rules the prompt is built with: none, one section, two sections
PromptStaticRules ==
    { <<>>,
      <<[section |-> FormatterSections[1], rules |-> << <<"C","i","t","e">> >>]>>,
      <<[section |-> FormatterSections[1], rules |-> << <<"C","i","t","e">> >>],
        [section |-> FormatterSections[2], rules |-> <<>>]>> }

\* a call of build_hybrid_prompt that has not run yet
InitPrompt ==
    /\ fcall \in {[fn |-> "build_hybrid_prompt", static_rules |-> static_rules,
                   dynamic_rules |-> dynamic_rules, done |-> FALSE,
                   result |-> build_hybrid_prompt(<<>>, <<>>)] :
                     static_rules \in PromptStaticRules, dynamic_rules \in DynamicChunkLists}
    /\ faiss = FALSE /\ store = RuleStoreInit /\ disk = NoFiles
    /\ last = Call("init", "", Outcome(RuleStoreInit, "", <<>>, 0), 0, <<>>, NoGatewayCall, FALSE)
    /\ builder = BuilderIdle /\ reader = ReaderIdle /\ page = NoPage

\* build_hybrid_prompt runs
PromptCall ==
    /\ fcall.fn = "build_hybrid_prompt" /\ ~fcall.done
    /\ fcall' = [fcall EXCEPT !.done = TRUE,
                              !.result = build_hybrid_prompt(fcall.static_rules,
                                                             fcall.dynamic_rules)]
    /\ UNCHANGED <<faiss, store, disk, last, threadVars, page>>

NextPrompt == PromptCall

SpecPrompt == InitPrompt /\ [][NextPrompt]_vars

\* a finished call of build_hybrid_prompt
PromptDone == fcall.fn = "build_hybrid_prompt" /\ fcall.done

\* C28: the diagnostics list one metadata per snippet of the dynamic block, in the
\* order of the snippets: the metadata of the chunk the snippet renders.
C28_DiagnosticsListUsedChunks ==
    PromptDone
    => LET snippets == fcall.result.prompt.dynamic_block.snippets
           listed   == fcall.result.diagnostics.dynamic_rules
           firsts   == FirstOccurrences(fcall.dynamic_rules)
       IN  /\ Len(listed) = Len(snippets)
           /\ \A k \in 1..Len(listed) : listed[k] = fcall.dynamic_rules[firsts[k]].metadata

\* ---------------------------------------------------------------- the UI session (app.py)

\* a session is followed while RuleStore.load has run fewer times than this
MaxLoads == 2

\* st.session_state before the first run of the script: no key is set.  keys: the
\* keys of init_session_state are set; loads: the calls of RuleStore.load made in
\* the session.  st.session_state["rule_store"] is the variable store.
NewSession == [fn |-> "session", keys |-> FALSE, rule_store_loaded |-> FALSE, loads |-> 0]

\* init_session_state, lines 359-366: the keys that are missing are set
init_session_state(session, rule_store) ==
    IF session.keys THEN [session |-> session, rule_store |-> rule_store]
    ELSE [session    |-> [session EXCEPT !.keys = TRUE, !.rule_store_loaded = FALSE],
          rule_store |-> RuleStoreInit]

\* main without the test of rule_store_loaded
main_load_unguarded(state, files, haveFaiss) ==
    [session    |-> [state.session EXCEPT !.rule_store_loaded = TRUE, !.loads = @ + 1],
     rule_store |-> load(files, haveFaiss)]

\* main, lines 389-391: the store is loaded while rule_store_loaded is not set
main_load(state, files, haveFaiss) ==
    IF ~state.session.rule_store_loaded
    THEN [session    |-> [state.session EXCEPT !.rule_store_loaded = TRUE, !.loads = @ + 1],
          rule_store |-> load(files, haveFaiss)]
    ELSE state

\* main, lines 387-391: the head of every run of the script
ScriptHead(session, rule_store, files, haveFaiss) ==
    main_load(init_session_state(session, rule_store), files, haveFaiss)

\* lines 658-678, the button "Embed & save": a blank text is refused; build works on
\* the store of the session; save follows a build that did not raise, and may raise
\* before it writes
embed_and_save(rule_store, files, d, gateway, save_raises, haveFaiss) ==
    IF d \in BlankDocs
    THEN [rule_store |-> rule_store, files |-> files,
          out |-> Outcome(rule_store, "", <<>>, 0), built |-> FALSE]
    ELSE LET out == build(rule_store, BuildChunkTexts[d], BuildChunkGuess[d], <<>>,
                          gateway, haveFaiss)
         IN  [rule_store |-> out.store,
              files |-> IF out.raised = "" /\ ~save_raises
                        THEN save(out.store, files, haveFaiss) ELSE files,
              out |-> out, built |-> TRUE]

\* the stores other sessions have built and saved under the same path
PersistedStores(haveFaiss) ==
    {build(RuleStoreInit, BuildChunkTexts["short"], BuildChunkGuess["short"], <<>>,
           gateway, haveFaiss).store :
        gateway \in BuildGatewayOutcomes(Len(BuildChunkTexts["short"])) \ {GatewayRaises}}

\* a browser opens the app: a session without state, the files as earlier sessions
\* left them
InitSession ==
    /\ faiss \in BOOLEAN
    /\ store = RuleStoreInit
    /\ disk \in {NoFiles} \cup {save(s, NoFiles, faiss) : s \in PersistedStores(faiss)}
    /\ last = Call("init", "", Outcome(RuleStoreInit, "", <<>>, 0), 0, <<>>, NoGatewayCall, FALSE)
    /\ builder = BuilderIdle /\ reader = ReaderIdle /\ page = NoPage
    /\ fcall = NewSession

\* a run of the script in which no button is pressed
Rerun ==
    /\ fcall.fn = "session" /\ fcall.loads < MaxLoads
    /\ LET head == ScriptHead(fcall, store, disk, faiss)
       IN  /\ fcall' = head.session
           /\ store' = head.rule_store
           /\ last' = IF head.session.loads # fcall.loads
                      THEN Call("load", "", load_outcome(disk, faiss), 0, <<>>,
                                NoGatewayCall, FALSE)
                      ELSE Call("rerun", "", Outcome(store, "", <<>>, 0), 0, <<>>,
                                NoGatewayCall, FALSE)
    /\ UNCHANGED <<faiss, disk, threadVars, page>>

\* a run of the script with the button "Embed & save" pressed; a button is there
\* to be pressed once a run has drawn it
EmbedAndSave ==
    /\ fcall.fn = "session" /\ fcall.keys /\ fcall.loads < MaxLoads
    /\ \E d \in DocIds, save_raises \in BOOLEAN :
         \E gateway \in BuildGatewayOutcomes(Len(BuildChunkTexts[d])) :
            LET head == ScriptHead(fcall, store, disk, faiss)
                done == embed_and_save(head.rule_store, disk, d, gateway, save_raises, faiss)
            IN  /\ fcall' = head.session
                /\ store' = done.rule_store
                /\ disk' = done.files
                /\ last' = Call(IF done.built THEN "build" ELSE "rerun", d, done.out,
                                0, <<>>, gateway, FALSE)
    /\ UNCHANGED <<faiss, threadVars, page>>

\* a run of the script with a generate button pressed: the pages query the store
\* of the session (the pages themselves are not kept here)
GeneratePages ==
    /\ fcall.fn = "session" /\ fcall.keys /\ fcall.loads < MaxLoads
    /\ LET head == ScriptHead(fcall, store, disk, faiss)
       IN  /\ fcall' = head.session
           /\ \E gateway \in QueryGatewayOutcomes :
                \E out \in query(head.rule_store, gateway, DefaultTopRules, <<>>, faiss) :
                   /\ store' = out.store
                   /\ last' = Call("query", "", Outcome(out.store, out.raised, <<>>, out.gw),
                                   DefaultTopRules, <<>>, gateway, FALSE)
    /\ UNCHANGED <<faiss, disk, threadVars, page>>

\* another session embeds and saves its rules under the same path
OtherSessionSaves ==
    /\ fcall.fn = "session"
    /\ \E s \in PersistedStores(faiss) : disk' = save(s, disk, faiss)
    /\ last' = EnvCall
    /\ UNCHANGED <<faiss, store, threadVars, page, fcall>>

NextSession ==
    \/ Rerun \/ EmbedAndSave \/ GeneratePages
    \/ OtherSessionSaves \/ DeleteIndexFile \/ CorruptIndexFile \/ CorruptMetaFile

SpecSession == InitSession /\ [][NextSession]_vars

\* C29: in a session RuleStore.load runs once at most, in the first run of the script;
\* once rule_store_loaded is set, the store of the session changes only in a run
\* with the button "Embed & save", through its build.
C29_LoadOnceThenEmbedOnly ==
    [][fcall.fn = "session"
          => /\ fcall'.loads <= 1
             /\ fcall'.loads # fcall.loads => ~fcall.keys
             /\ (fcall.rule_store_loaded /\ store' # store) => last'.op = "build"]_vars

\* the operator has rebuilt the store, the files under the path now load to another
\* store, and a later run of the script has left the rebuilt store in place
C29_Witness ==
    /\ fcall.fn = "session" /\ fcall.rule_store_loaded /\ fcall.loads = 1
    /\ last.op = "rerun" /\ is_ready(store)
    /\ load(disk, faiss) # store
    /\ is_ready(load(disk, faiss))

====
